---- MODULE Spec2Model ----
(***************************************************************************)
(* A model of coregx/signals: reactive cells (signal), derived cells       *)
(* (computed) and effects, with their locks, atomics, subscriber maps and  *)
(* the goroutines that run them.                                           *)
(*                                                                         *)
(* Every goroutine has a call stack of frames; the top frame is the        *)
(* function that is executing.  One action is one atomic step of one       *)
(* function: an atomic load/store, or a critical section that touches only *)
(* data protected by the lock it takes.  A user callback is a step of its  *)
(* own, so that other goroutines interleave with it.                       *)
(***************************************************************************)
EXTENDS Integers, Sequences, FiniteSets, TLC

\* ------------------------------------------------------------------ bounds
NumThreads == 2        \* goroutines that call into the library
MaxOps     == 3        \* public calls the goroutines start in all
MaxVal     == 1        \* values passed to Set are 0..MaxVal
MaxSubs    == 2        \* Subscribe calls made by clients on one cell
MaxSeqOps  == 4        \* public calls of the goroutine that works alone

Threads == 1 .. NumThreads
Values  == 0 .. MaxVal

\* ------------------------------------------------------------------ objects
Sigs    == {"A", "B"}          \* signal[T] objects
Comps   == {"C", "D", "F"}     \* computed[T] objects
Cells   == Sigs \cup Comps
Ctxs    == {"bg", "ctx"}       \* context.Background() and one cancellable context
UpdFns  == {"inc", "same"}     \* transforms handed to Update
Facades == {"RA"}              \* readonlySignal[T] objects
NoSource == [r \in Facades |-> ""]    \* no facade has been made

VARIABLES
    value,        \* signal.value
    equal,        \* signal.equal: "nil", "eq", or "boom" (a function that panics)
    subscribers,  \* signal.subscribers / computed.subscribers: id -> present
    nextID,       \* signal.nextID / computed.nextID
    mu,           \* signal.mu / computed.mu: the goroutines holding it: t for the write
                  \* lock, -t for a read lock that outlives its critical section
    onPanicCalls, \* how often onPanic (or the default logger) ran, per object
    subscr,       \* per subscription <<cell, id>>: callback, ctx, done channel, watcher goroutine
    ctxDone,      \* ctx.Done() is closed
    stack,        \* per goroutine: the call stack, top first
    ops,          \* public calls started so far
    quota,        \* public calls the clients make in all
    delivered,    \* per user subscription: the values its callback received, in order
    linValue,     \* the value a linearizable cell would hold
    crashed,      \* an unrecovered panic ended the process
    cfg,          \* what was constructed: dependencies, compute and effect functions,
                  \* and readonlySignal.source
    comp,         \* per computed: cached, dirty, unsubscribes (and how often compute ran
                  \* and how often clients called Get)
    eff,          \* the effect: stopped, cleanup, mu, unsubscribes; its event log and the counts
                  \* of body runs, Stop calls, teardowns begun, final cleanups run and
                  \* onPanic calls
    ret           \* per goroutine: the value the last callee returned to its caller

vars == <<value, equal, subscribers, nextID, mu, onPanicCalls, subscr, ctxDone,
          stack, ops, quota, delivered, linValue, crashed, cfg, comp, eff, ret>>

\* ------------------------------------------------------------------ frames
NoFrameData == [val |-> 0, old |-> 0, cbs |-> {}, snap |-> {}, pre |-> <<>>,
                stored |-> FALSE, id |-> 0, acc |-> <<>>, fault |-> FALSE,
                calls |-> <<>>, runs |-> 0]

Frame(fn, pc, c) == [fn |-> fn, pc |-> pc, cell |-> c] @@ NoFrameData

Top(t)        == Head(stack[t])
Idle(t)       == ~crashed /\ stack[t] = <<>>
Running(t)    == ~crashed /\ stack[t] # <<>>
InFn(t, fn, pc) == Running(t) /\ Top(t).fn = fn /\ Top(t).pc = pc
CanCall(t)    == Idle(t) /\ ops < quota
Goto(t, f)    == [stack EXCEPT ![t] = <<f>> \o Tail(@)]
Push(t, f, g) == [stack EXCEPT ![t] = <<g, f>> \o Tail(@)]   \* caller becomes f, callee g on top
Pop(t)        == [stack EXCEPT ![t] = Tail(@)]

\* ------------------------------------------------------------------ user functions
\* Options.Equal as the tests configure it: value equality.
EqualFunc(a, b) == a = b

\* The transform handed to Update.
UpdateFn(fn, v) == IF fn = "inc" THEN v + 1 ELSE v

\* s.equal != nil && s.equal(a, b)
EqualHolds(c, a, b) == equal[c] # "nil" /\ EqualFunc(a, b)

\* fn(oldValue) panics, or s.equal(oldValue, newValue) does (an Options.Equal
\* that panics when called), in the Update of frame f.
UpdatePanics(f) == f.id = "boom" \/ equal[f.cell] = "boom"

Ids(c) == DOMAIN subscribers[c]

\* Where a notification loop stands: in the loop while callbacks remain;
\* after it Set and markDirty return and Update re-acquires the lock.
NotifyPc(fn, cbs) == IF cbs # {} THEN "notify"
                     ELSE IF fn = "Update" THEN "relock" ELSE "ret"

\* ------------------------------------------------------------------ signal.Set
\* signal_Set without the fast path: the value is stored and the subscribers
\* are notified whatever Options.Equal says.
signal_Set_noEqual(t, c, v) ==
    /\ CanCall(t)
    /\ ops' = ops + 1
    /\ stack' = [stack EXCEPT ![t] =
                   <<[Frame("Set", "store", c)
                        EXCEPT !.val = v, !.old = value[c], !.pre = delivered]>>]
    /\ UNCHANGED <<cfg, quota, comp, eff, ret, value, equal, subscribers, nextID, mu,
                   onPanicCalls, subscr, ctxDone, delivered, linValue, crashed>>

\* signal_Set returning early whenever the value is unchanged, with or
\* without Options.Equal.
signal_Set_skipSame(t, c, v) ==
    /\ CanCall(t)
    /\ mu[c] = {}
    /\ ops' = ops + 1
    /\ stack' = [stack EXCEPT ![t] =
                   <<[Frame("Set", IF value[c] = v THEN "ret" ELSE "store", c)
                        EXCEPT !.val = v, !.old = value[c], !.pre = delivered,
                               !.calls = [d \in Comps |-> comp[d].computeCalls],
                               !.runs = eff.runs]>>]
    /\ UNCHANGED <<cfg, quota, comp, eff, ret, value, equal, subscribers, nextID, mu,
                   onPanicCalls, subscr, ctxDone, delivered, linValue, crashed>>

\* Set is called.  The fast path: if equal != nil, the equality check under
\* the read lock, which is released before the write lock is taken.
signal_Set(t, c, v) ==
    /\ CanCall(t)
    /\ equal[c] # "boom"
    /\ equal[c] = "nil" \/ \A x \in mu[c] : x < 0     \* RLock waits for a writer only
    /\ ops' = ops + 1
    /\ stack' = [stack EXCEPT ![t] =
                   <<[Frame("Set", IF EqualHolds(c, value[c], v) THEN "ret" ELSE "store", c)
                        EXCEPT !.val = v, !.old = value[c], !.pre = delivered,
                               !.calls = [d \in Comps |-> comp[d].computeCalls],
                               !.runs = eff.runs]>>]
    /\ UNCHANGED <<cfg, quota, comp, eff, ret, value, equal, subscribers, nextID, mu,
                   onPanicCalls, subscr, ctxDone, delivered, linValue, crashed>>

\* signal.Get is called by a client: RLock; value := s.value; RUnlock; return value
signal_Get(t, c) ==
    /\ CanCall(t)
    /\ \A x \in mu[c] : x < 0                          \* RLock waits for a writer only
    /\ ops' = ops + 1
    /\ stack' = [stack EXCEPT ![t] = <<[Frame("Get", "ret", c) EXCEPT !.val = value[c]]>>]
    /\ UNCHANGED <<cfg, quota, comp, eff, ret, value, equal, subscribers, nextID, mu,
                   onPanicCalls, subscr, ctxDone, delivered, linValue, crashed>>

\* signal_Set_store copying the subscribers and notifying them without
\* assigning s.value.
signal_Set_store_dropped(t) ==
    /\ InFn(t, "Set", "store")
    /\ LET f == Top(t) IN
       /\ mu[f.cell] = {}
       /\ value' = value
       /\ linValue' = [linValue EXCEPT ![f.cell] = f.val]
       /\ stack' = Goto(t, [f EXCEPT !.pc = NotifyPc("Set", Ids(f.cell)),
                                     !.cbs = Ids(f.cell), !.snap = Ids(f.cell),
                                     !.stored = TRUE])
    /\ UNCHANGED <<cfg, quota, comp, eff, ret, equal, subscribers, nextID, mu, onPanicCalls, subscr, ctxDone,
                   ops, delivered, crashed>>

\* Lock; s.value = newValue; copy the subscribers; Unlock.
signal_Set_store(t) ==
    /\ InFn(t, "Set", "store")
    /\ LET f == Top(t) IN
       /\ mu[f.cell] = {}
       /\ value' = [value EXCEPT ![f.cell] = f.val]
       /\ linValue' = [linValue EXCEPT ![f.cell] = f.val]
       /\ stack' = Goto(t, [f EXCEPT !.pc = NotifyPc("Set", Ids(f.cell)),
                                     !.cbs = Ids(f.cell), !.snap = Ids(f.cell),
                                     !.stored = TRUE])
    /\ UNCHANGED <<cfg, quota, comp, eff, ret, equal, subscribers, nextID, mu, onPanicCalls, subscr, ctxDone,
                   ops, delivered, crashed>>

\* ------------------------------------------------------------------ signal.Update
\* signal_Update reading s.value before it holds the lock.
signal_Update_unlocked(t, c, fn) ==
    /\ CanCall(t)
    /\ ops' = ops + 1
    /\ stack' = [stack EXCEPT ![t] =
                   <<[Frame("Update", "apply", c) EXCEPT !.id = fn, !.old = value[c],
                                                         !.pre = delivered]>>]
    /\ UNCHANGED <<cfg, quota, comp, eff, ret, value, equal, subscribers, nextID, mu,
                   onPanicCalls, subscr, ctxDone, delivered, linValue, crashed>>

\* signal_Update with one lock for all cells in place of s.mu.
signal_Update_sharedLock(t, c, fn) ==
    /\ CanCall(t)
    /\ \A d \in Cells : mu[d] = {}
    /\ mu' = [d \in Cells |-> {t}]
    /\ ops' = ops + 1
    /\ stack' = [stack EXCEPT ![t] =
                   <<[Frame("Update", "apply", c) EXCEPT !.id = fn, !.old = value[c],
                                                         !.pre = delivered,
                                                         !.calls = [d \in Comps |-> comp[d].computeCalls],
                                                         !.runs = eff.runs]>>]
    /\ UNCHANGED <<cfg, quota, comp, eff, ret, value, equal, subscribers, nextID,
                   onPanicCalls, subscr, ctxDone, delivered, linValue, crashed>>

\* Update is called: s.mu.Lock(); oldValue := s.value
signal_Update(t, c, fn) ==
    /\ CanCall(t)
    /\ mu[c] = {}
    /\ mu' = [mu EXCEPT ![c] = {t}]
    /\ ops' = ops + 1
    /\ stack' = [stack EXCEPT ![t] =
                   <<[Frame("Update", "apply", c) EXCEPT !.id = fn, !.old = value[c],
                                                         !.pre = delivered,
                                                         !.calls = [d \in Comps |-> comp[d].computeCalls],
                                                         !.runs = eff.runs]>>]
    /\ UNCHANGED <<cfg, quota, comp, eff, ret, value, equal, subscribers, nextID,
                   onPanicCalls, subscr, ctxDone, delivered, linValue, crashed>>

\* signal_Update_apply keeping the lock until the deferred Unlock: the
\* subscribers are notified inside the critical section.
signal_Update_apply_locked(t) ==
    /\ InFn(t, "Update", "apply")
    /\ LET f   == Top(t)
           new == UpdateFn(f.id, f.old)
       IN
       /\ IF EqualHolds(f.cell, f.old, new)
          THEN /\ stack' = Goto(t, [f EXCEPT !.pc = "ret", !.val = new])
               /\ mu' = [mu EXCEPT ![f.cell] = @ \ {t}]
               /\ UNCHANGED <<value, linValue>>
          ELSE /\ value' = [value EXCEPT ![f.cell] = new]
               /\ linValue' = [linValue EXCEPT ![f.cell] = UpdateFn(f.id, @)]
               /\ mu' = mu
               /\ stack' = Goto(t, [f EXCEPT !.pc = NotifyPc("Update", Ids(f.cell)),
                                             !.val = new,
                                             !.cbs = Ids(f.cell), !.snap = Ids(f.cell),
                                             !.stored = TRUE])
    /\ UNCHANGED <<cfg, quota, comp, eff, ret, equal, subscribers, nextID, onPanicCalls, subscr, ctxDone,
                   ops, delivered, crashed>>

\* newValue := fn(oldValue); equality short-circuit (deferred Unlock) or
\* store, copy the subscribers, Unlock.
signal_Update_apply(t) ==
    /\ InFn(t, "Update", "apply")
    /\ ~UpdatePanics(Top(t))
    /\ LET f   == Top(t)
           new == UpdateFn(f.id, f.old)
       IN
       /\ mu' = [mu EXCEPT ![f.cell] = @ \ {t}]
       /\ IF EqualHolds(f.cell, f.old, new)
          THEN /\ stack' = Goto(t, [f EXCEPT !.pc = "ret", !.val = new])
               /\ UNCHANGED <<value, linValue>>
          ELSE /\ value' = [value EXCEPT ![f.cell] = new]
               /\ linValue' = [linValue EXCEPT ![f.cell] = UpdateFn(f.id, @)]
               /\ stack' = Goto(t, [f EXCEPT !.pc = NotifyPc("Update", Ids(f.cell)),
                                             !.val = new,
                                             !.cbs = Ids(f.cell), !.snap = Ids(f.cell),
                                             !.stored = TRUE])
    /\ UNCHANGED <<cfg, quota, comp, eff, ret, equal, subscribers, nextID, onPanicCalls, subscr, ctxDone,
                   ops, delivered, crashed>>

\* "Re-acquire lock for defer": Lock, then the deferred Unlock.
signal_Update_relock(t) ==
    /\ InFn(t, "Update", "relock")
    /\ mu[Top(t).cell] = {}
    /\ stack' = Goto(t, [Top(t) EXCEPT !.pc = "ret"])
    /\ UNCHANGED <<cfg, quota, comp, eff, ret, value, equal, subscribers, nextID, mu, onPanicCalls, subscr, ctxDone,
                   ops, delivered, linValue, crashed>>

\* ------------------------------------------------------------------ panics in Options.Equal and in the transform
\* Set is called with an Options.Equal that panics: RLock, s.equal panics
\* before either RUnlock, and Set has no deferred call: the panic leaves Set
\* with the read lock held.
signal_Set_equalPanics(t, c, v) ==
    /\ CanCall(t)
    /\ equal[c] = "boom"
    /\ \A x \in mu[c] : x < 0
    /\ ops' = ops + 1
    /\ mu' = [mu EXCEPT ![c] = @ \cup {0 - t}]
    /\ stack' = [stack EXCEPT ![t] =
                   <<[Frame("Set", "panic", c) EXCEPT !.val = v, !.old = value[c],
                                                     !.snap = Ids(c), !.fault = TRUE]>>]
    /\ UNCHANGED <<cfg, quota, comp, eff, ret, value, equal, subscribers, nextID,
                   onPanicCalls, subscr, ctxDone, delivered, linValue, crashed>>

\* fn(oldValue) or s.equal(oldValue, newValue) panics in Update: the deferred
\* s.mu.Unlock() runs, nothing recovers, the panic leaves Update.
signal_Update_panics(t) ==
    /\ InFn(t, "Update", "apply")
    /\ UpdatePanics(Top(t))
    /\ mu' = [mu EXCEPT ![Top(t).cell] = @ \ {t}]
    /\ stack' = Goto(t, [Top(t) EXCEPT !.pc = "panic", !.snap = Ids(Top(t).cell),
                                       !.fault = TRUE])
    /\ UNCHANGED <<cfg, quota, comp, eff, ret, value, equal, subscribers, nextID, onPanicCalls,
                   subscr, ctxDone, ops, delivered, linValue, crashed>>

\* The panic leaves the call: a deferred recover() in the client's own code
\* stops it, or there is none and the panic ends the process.
client_panic(t) ==
    /\ Running(t) /\ Top(t).pc = "panic"
    /\ crashed' \in BOOLEAN
    /\ stack' = Pop(t)
    /\ UNCHANGED <<cfg, quota, comp, eff, ret, value, equal, subscribers, nextID, mu,
                   onPanicCalls, subscr, ctxDone, ops, delivered, linValue>>

\* ------------------------------------------------------------------ signal.notifySubscribers
\* signal_notifySubscribers without the recover: a panicking callback ends
\* the loop.
signal_notifySubscribers_noRecover(t) ==
    /\ Running(t) /\ Top(t).fn \in {"Set", "Update"} /\ Top(t).pc = "notify"
    /\ LET f == Top(t) IN
       \E id \in f.cbs :
          LET h    == <<f.cell, id>>
              left == IF subscr[h].panics THEN {} ELSE f.cbs \ {id}
          IN
          /\ subscr[h].kind = "user"
          /\ delivered' = [delivered EXCEPT ![h] = Append(@, f.val)]
          /\ onPanicCalls' = IF subscr[h].panics
                             THEN [onPanicCalls EXCEPT ![f.cell] = @ + 1]
                             ELSE onPanicCalls
          /\ stack' = Goto(t, [f EXCEPT !.cbs = left, !.pc = NotifyPc(f.fn, left)])
    /\ UNCHANGED <<cfg, quota, comp, eff, ret, value, equal, subscribers, nextID, mu,
                   subscr, ctxDone, ops, linValue, crashed>>

\* signal_notifySubscribers ranging over s.subscribers itself, not over the
\* copy made in the critical section.
signal_notifySubscribers_live(t) ==
    /\ Running(t) /\ Top(t).fn \in {"Set", "Update"} /\ Top(t).pc = "notify"
    /\ LET f == Top(t) IN
       \E id \in Ids(f.cell) \ (f.snap \ f.cbs) :
          LET h == <<f.cell, id>> IN
          /\ subscr[h].kind = "user"
          /\ delivered' = [delivered EXCEPT ![h] = Append(@, f.val)]
          /\ onPanicCalls' = IF subscr[h].panics
                             THEN [onPanicCalls EXCEPT ![f.cell] = @ + 1]
                             ELSE onPanicCalls
          /\ stack' = Goto(t, [f EXCEPT !.cbs = @ \ {id}, !.snap = @ \cup {id},
                                        !.pc = NotifyPc(f.fn, f.cbs \ {id})])
    /\ UNCHANGED <<cfg, quota, comp, eff, ret, value, equal, subscribers, nextID, mu, subscr, ctxDone,
                   ops, linValue, crashed>>

\* One iteration of the loop over the copied callbacks (Go's map order is
\* unspecified: any remaining callback may be next), for a callback supplied
\* by a client: it records the value and may panic; the panic is recovered
\* and handed to onPanic.
signal_notifySubscribers(t) ==
    /\ Running(t) /\ Top(t).fn \in {"Set", "Update"} /\ Top(t).pc = "notify"
    /\ LET f == Top(t) IN
       \E id \in f.cbs :
          LET h == <<f.cell, id>> IN
          /\ subscr[h].kind = "user"
          /\ delivered' = [delivered EXCEPT ![h] = Append(@, f.val)]
          /\ onPanicCalls' = IF subscr[h].panics
                             THEN [onPanicCalls EXCEPT ![f.cell] = @ + 1]
                             ELSE onPanicCalls
          /\ stack' = Goto(t, [f EXCEPT !.cbs = @ \ {id},
                                        !.pc = NotifyPc(f.fn, f.cbs \ {id})])
    /\ UNCHANGED <<cfg, quota, comp, eff, ret, value, equal, subscribers, nextID, mu, subscr, ctxDone,
                   ops, linValue, crashed>>

\* A function returns to its caller.
Return(t) ==
    /\ Running(t) /\ Top(t).pc = "ret"
    /\ stack' = Pop(t)
    /\ ret' = [ret EXCEPT ![t] = IF Len(stack[t]) > 1 /\ Top(t).fn = "Get"
                                   THEN Top(t).val ELSE 0]
    /\ UNCHANGED <<cfg, quota, comp, eff, value, equal, subscribers, nextID, mu, onPanicCalls, subscr, ctxDone,
                   ops, delivered, linValue, crashed>>

\* ------------------------------------------------------------------ signal.Subscribe
\* What Subscribe creates besides the map entry: the callback (a client's
\* function, or the closure trackDependencyHelper builds around markDirty or
\* run), the context, the done channel (how often it was closed) and the
\* watcher goroutine (where it is).
Subscription(kind, tgt, panics, ctx) ==
    [kind |-> kind, tgt |-> tgt, panics |-> panics, ctx |-> ctx,
     closes |-> 0, wpc |-> "select"]

\* signal_Subscribe without s.nextID++: the next Subscribe takes the same id.
signal_Subscribe_sameID(t, c, ctx, panics) ==
    /\ CanCall(t)
    /\ nextID[c] < MaxSubs
    /\ mu[c] = {}
    /\ LET id == nextID[c]
           h  == <<c, id>>
       IN
       /\ nextID' = nextID
       /\ subscribers' = [subscribers EXCEPT ![c] = (id :> TRUE) @@ @]
       /\ subscr' = (h :> Subscription("user", "", panics, ctx)) @@ subscr
       /\ delivered' = (h :> <<>>) @@ delivered
    /\ ops' = ops + 1
    /\ UNCHANGED <<cfg, quota, comp, eff, ret, value, equal, mu, onPanicCalls, ctxDone, stack, linValue, crashed>>

\* Lock; id := nextID; nextID++; subscribers[id] = fn; Unlock; make(done);
\* start the watcher goroutine; return the Unsubscribe closure.
signal_Subscribe(t, c, ctx, panics) ==
    /\ CanCall(t)
    /\ nextID[c] < MaxSubs
    /\ mu[c] = {}
    /\ LET id == nextID[c]
           h  == <<c, id>>
       IN
       /\ nextID' = [nextID EXCEPT ![c] = @ + 1]
       /\ subscribers' = [subscribers EXCEPT ![c] = (id :> TRUE) @@ @]
       /\ subscr' = (h :> Subscription("user", "", panics, ctx)) @@ subscr
       /\ delivered' = (h :> <<>>) @@ delivered
    /\ ops' = ops + 1
    /\ UNCHANGED <<cfg, quota, comp, eff, ret, value, equal, mu, onPanicCalls, ctxDone, stack, linValue, crashed>>

\* The watcher goroutine's select, case <-ctx.Done().
watcher_ctxDone(h) ==
    /\ ~crashed /\ subscr[h].wpc = "select"
    /\ ctxDone[subscr[h].ctx]
    /\ subscr' = [subscr EXCEPT ![h].wpc = "delete"]
    /\ UNCHANGED <<cfg, quota, comp, eff, ret, value, equal, subscribers, nextID, mu,
                   onPanicCalls, ctxDone, stack, ops, delivered, linValue, crashed>>

\* The watcher goroutine's select, case <-done: the goroutine ends.
watcher_done(h) ==
    /\ ~crashed /\ subscr[h].wpc = "select"
    /\ subscr[h].closes > 0
    /\ subscr' = [subscr EXCEPT ![h].wpc = "exit"]
    /\ UNCHANGED <<cfg, quota, comp, eff, ret, value, equal, subscribers, nextID, mu,
                   onPanicCalls, ctxDone, stack, ops, delivered, linValue, crashed>>

Remove(subs, id) == [i \in (DOMAIN subs) \ {id} |-> subs[i]]

\* watcher_delete going on to close(done) without deleting the map entry.
watcher_delete_skip(h) ==
    /\ ~crashed /\ subscr[h].wpc = "delete"
    /\ subscr' = [subscr EXCEPT ![h].wpc = "close"]
    /\ UNCHANGED <<cfg, quota, comp, eff, ret, value, equal, subscribers, nextID, mu,
                   onPanicCalls, ctxDone, stack, ops, delivered, linValue, crashed>>

\* case <-ctx.Done(): Lock; delete(subscribers, id); Unlock
watcher_delete(h) ==
    /\ ~crashed /\ subscr[h].wpc = "delete"
    /\ mu[h[1]] = {}
    /\ subscribers' = [subscribers EXCEPT ![h[1]] = Remove(@, h[2])]
    /\ subscr' = [subscr EXCEPT ![h].wpc = "close"]
    /\ UNCHANGED <<cfg, quota, comp, eff, ret, value, equal, nextID, mu, onPanicCalls, ctxDone,
                   stack, ops, delivered, linValue, crashed>>

\* close(done) in the watcher; closing a closed channel panics, and a panic
\* in a goroutine without recover ends the process.
watcher_close(h) ==
    /\ ~crashed /\ subscr[h].wpc = "close"
    /\ subscr' = [subscr EXCEPT ![h].wpc = "exit", ![h].closes = @ + 1]
    /\ crashed' = (crashed \/ subscr[h].closes > 0)
    /\ UNCHANGED <<cfg, quota, comp, eff, ret, value, equal, subscribers, nextID, mu, onPanicCalls, ctxDone,
                   stack, ops, delivered, linValue>>

\* The context passed to Subscribe is cancelled or times out.
ctx_cancel ==
    /\ ~crashed /\ ~ctxDone["ctx"]
    /\ \E h \in DOMAIN subscr : subscr[h].ctx = "ctx"
    /\ ctxDone' = [ctxDone EXCEPT !["ctx"] = TRUE]
    /\ UNCHANGED <<cfg, quota, comp, eff, ret, value, equal, subscribers, nextID, mu, onPanicCalls, subscr,
                   stack, ops, quota, delivered, linValue, crashed>>

\* ------------------------------------------------------------------ Unsubscribe
\* Unsubscribe closing done without deleting the map entry.
Unsubscribe_noDelete(t, h) ==
    /\ CanCall(t)
    /\ subscr[h].kind = "user"
    /\ ops' = ops + 1
    /\ stack' = [stack EXCEPT ![t] =
                   <<[Frame("Unsubscribe", "select", h[1]) EXCEPT !.id = h[2]]>>]
    /\ UNCHANGED <<cfg, quota, comp, eff, ret, value, equal, subscribers, nextID, mu,
                   onPanicCalls, subscr, ctxDone, delivered, linValue, crashed>>

\* The closure returned by Subscribe is called by a client:
\* Lock; delete(subscribers, id); Unlock
Unsubscribe(t, h) ==
    /\ CanCall(t)
    /\ subscr[h].kind = "user"
    /\ mu[h[1]] = {}
    /\ ops' = ops + 1
    /\ subscribers' = [subscribers EXCEPT ![h[1]] = Remove(@, h[2])]
    /\ stack' = [stack EXCEPT ![t] =
                   <<[Frame("Unsubscribe", "select", h[1]) EXCEPT !.id = h[2]]>>]
    /\ UNCHANGED <<cfg, quota, comp, eff, ret, value, equal, nextID, mu, onPanicCalls,
                   subscr, ctxDone, delivered, linValue, crashed>>

\* The closure is called by Stop or Cleanup: Lock; delete(subscribers, id); Unlock
Unsubscribe_delete(t) ==
    /\ InFn(t, "Unsubscribe", "delete")
    /\ LET f == Top(t) IN
       /\ mu[f.cell] = {}
       /\ subscribers' = [subscribers EXCEPT ![f.cell] = Remove(@, f.id)]
       /\ stack' = Goto(t, [f EXCEPT !.pc = "select"])
    /\ UNCHANGED <<cfg, quota, comp, eff, ret, value, equal, nextID, mu, onPanicCalls, subscr, ctxDone,
                   ops, delivered, linValue, crashed>>

\* select { case <-done: (already closed)  default: ... }
Unsubscribe_select(t) ==
    /\ InFn(t, "Unsubscribe", "select")
    /\ LET f == Top(t) IN
       stack' = Goto(t, [f EXCEPT !.pc = IF subscr[<<f.cell, f.id>>].closes > 0
                                         THEN "ret" ELSE "close"])
    /\ UNCHANGED <<cfg, quota, comp, eff, ret, value, equal, subscribers, nextID, mu, onPanicCalls, subscr, ctxDone,
                   ops, delivered, linValue, crashed>>

\* Unsubscribe_close taking the default branch without close(done).
Unsubscribe_close_noClose(t) ==
    /\ InFn(t, "Unsubscribe", "close")
    /\ stack' = Goto(t, [Top(t) EXCEPT !.pc = "ret"])
    /\ UNCHANGED <<cfg, quota, comp, eff, ret, value, equal, subscribers, nextID, mu, onPanicCalls, ctxDone,
                   ops, delivered, linValue, subscr, crashed>>

\* default: close(done); closing a closed channel panics.
Unsubscribe_close(t) ==
    /\ InFn(t, "Unsubscribe", "close")
    /\ LET f == Top(t)
           h == <<f.cell, f.id>>
       IN
       /\ subscr' = [subscr EXCEPT ![h].closes = @ + 1]
       /\ crashed' = (crashed \/ subscr[h].closes > 0)
       /\ stack' = Goto(t, [f EXCEPT !.pc = "ret"])
    /\ UNCHANGED <<cfg, quota, comp, eff, ret, value, equal, subscribers, nextID, mu, onPanicCalls, ctxDone,
                   ops, delivered, linValue>>


\* ------------------------------------------------------------------ readonlySignal
\* AsReadonly is called by a client: return &readonlySignal[T]{source: s}
signal_AsReadonly(t, c, r) ==
    /\ CanCall(t)
    /\ cfg.source[r] = ""
    /\ ops' = ops + 1
    /\ cfg' = [cfg EXCEPT !.source[r] = c]
    /\ UNCHANGED <<quota, comp, eff, ret, value, equal, subscribers, nextID, mu,
                   onPanicCalls, subscr, ctxDone, stack, delivered, linValue, crashed>>

\* readonlySignal_Get returning the zero value instead of asking the source.
readonlySignal_Get_zero(t, r) ==
    /\ CanCall(t)
    /\ cfg.source[r] # ""
    /\ ops' = ops + 1
    /\ stack' = [stack EXCEPT ![t] =
                   <<[Frame("Get", "ret", cfg.source[r]) EXCEPT !.val = 0],
                     Frame("readonlySignal.Get", "got", r)>>]
    /\ UNCHANGED <<cfg, quota, comp, eff, ret, value, equal, subscribers, nextID, mu,
                   onPanicCalls, subscr, ctxDone, delivered, linValue, crashed>>

\* The facade's Get is called by a client: return r.source.Get(), which is
\* RLock; value := s.value; RUnlock on the source.
readonlySignal_Get(t, r) ==
    /\ CanCall(t)
    /\ cfg.source[r] # ""
    /\ mu[cfg.source[r]] = {}
    /\ ops' = ops + 1
    /\ stack' = [stack EXCEPT ![t] =
                   <<[Frame("Get", "ret", cfg.source[r]) EXCEPT !.val = value[cfg.source[r]]],
                     Frame("readonlySignal.Get", "got", r)>>]
    /\ UNCHANGED <<cfg, quota, comp, eff, ret, value, equal, subscribers, nextID, mu,
                   onPanicCalls, subscr, ctxDone, delivered, linValue, crashed>>

\* r.source.Get() has returned: the facade returns what it got.
readonlySignal_Get_return(t) ==
    /\ InFn(t, "readonlySignal.Get", "got")
    /\ stack' = Goto(t, [Top(t) EXCEPT !.pc = "ret", !.val = ret[t]])
    /\ ret' = [ret EXCEPT ![t] = 0]
    /\ UNCHANGED <<cfg, quota, comp, eff, value, equal, subscribers, nextID, mu,
                   onPanicCalls, subscr, ctxDone, ops, delivered, linValue, crashed>>

\* The facade's Subscribe (SubscribeForever with context.Background()) is
\* called by a client: return r.source.Subscribe(ctx, fn), which registers fn
\* in the source's map under the source's lock.
readonlySignal_Subscribe(t, r, ctx, panics) ==
    /\ CanCall(t)
    /\ cfg.source[r] # ""
    /\ LET c  == cfg.source[r]
           id == nextID[c]
           h  == <<c, id>>
       IN
       /\ nextID[c] < MaxSubs
       /\ mu[c] = {}
       /\ nextID' = [nextID EXCEPT ![c] = @ + 1]
       /\ subscribers' = [subscribers EXCEPT ![c] = (id :> TRUE) @@ @]
       /\ subscr' = (h :> Subscription("user", r, panics, ctx)) @@ subscr
       /\ delivered' = (h :> <<>>) @@ delivered
    /\ ops' = ops + 1
    /\ UNCHANGED <<cfg, quota, comp, eff, ret, value, equal, mu, onPanicCalls, ctxDone,
                   stack, linValue, crashed>>

\* ------------------------------------------------------------------ trackDependencyHelper
\* The dependencies a caller can pass as `any` besides a signal or a computed:
\* a nil interface, a value without a SubscribeForever method, one whose
\* SubscribeForever has not one parameter and one result, and one whose
\* SubscribeForever has one parameter that is not a function type
\* (func (x X) SubscribeForever(n int) int).
Shapes == {"nil", "noMethod", "badArity", "nonFuncParam"}

\* func() {}, the Unsubscribe of the fallback paths.
NoopHandle == <<"none", 0>>

\* trackDependencyHelper(dep, onChange): a cell is a ReadonlySignal[int] and
\* is subscribed to in the type switch; everything else goes to
\* subscribeAnyType, which returns func() {} when the value is invalid, the
\* method is missing or the arity is wrong, and otherwise hands the type of
\* the method's parameter to reflect.MakeFunc, which panics when that type is
\* not a function type.
TrackOutcome(dep) ==
    IF dep \in Cells THEN "subscribe"
    ELSE IF dep = "nil" THEN "noop"
    ELSE IF dep = "noMethod" THEN "noop"
    ELSE IF dep = "badArity" THEN "noop"
    ELSE "panic"

\* The callback trackDependencyHelper subscribes: func(_ any) { onChange() },
\* with onChange = c.markDirty.  One iteration of a notification loop calls it.
onChange_markDirty(t) ==
    /\ Running(t) /\ Top(t).pc = "notify"
    /\ LET f == Top(t) IN
       \E id \in f.cbs :
          LET h == <<f.cell, id>> IN
          /\ subscr[h].kind = "markDirty"
          /\ stack' = Push(t, [f EXCEPT !.cbs = @ \ {id},
                                        !.pc = NotifyPc(f.fn, f.cbs \ {id})],
                              Frame("markDirty", "store", subscr[h].tgt))
    /\ UNCHANGED <<cfg, quota, comp, eff, ret, value, equal, subscribers, nextID, mu,
                   onPanicCalls, subscr, ctxDone, ops, delivered, linValue, crashed>>

\* ------------------------------------------------------------------ computed
DepValues(c) == [i \in 1 .. Len(cfg.deps[c]) |-> value[cfg.deps[c][i]]]

RECURSIVE Sum(_)
Sum(s) == IF s = <<>> THEN 0 ELSE Head(s) + Sum(Tail(s))

\* The compute functions of the tests: the sum of the dependencies ("sum"),
\* one that panics for one value of its first dependency and otherwise
\* doubles it ("panicky"), the double ("double") and the successor ("succ")
\* of the one dependency.
ComputePanics(kind, vals) == kind = "panicky" /\ vals[1] = 0
ComputeFn(kind, vals)     == IF kind \in {"panicky", "double"} THEN 2 * vals[1]
                             ELSE IF kind = "succ" THEN vals[1] + 1
                             ELSE Sum(vals)

\* Get is called by a client; the fast path's c.dirty.Load().
computed_Get(t, c) ==
    /\ CanCall(t)
    /\ ops' = ops + 1
    /\ comp' = [comp EXCEPT ![c].gets = @ + 1]
    /\ stack' = [stack EXCEPT ![t] =
                   <<[Frame("Get", IF comp[c].dirty THEN "lock" ELSE "read", c) EXCEPT
                        !.pre = ops',
                        !.stored = \A u \in Threads \ {t} : stack[u] = <<>>,
                        !.calls = [d \in Comps |-> comp[d].computeCalls]]>>]
    /\ UNCHANGED <<cfg, quota, eff, ret, value, equal, subscribers, nextID, mu,
                   onPanicCalls, subscr, ctxDone, delivered, linValue, crashed>>

\* The fast path of a Get that markDirty calls: if !c.dirty.Load()
computed_Get_fast(t) ==
    /\ InFn(t, "Get", "fast")
    /\ stack' = Goto(t, [Top(t) EXCEPT !.pc = IF comp[Top(t).cell].dirty
                                              THEN "lock" ELSE "read"])
    /\ UNCHANGED <<cfg, quota, comp, eff, ret, value, equal, subscribers, nextID, mu,
                   onPanicCalls, subscr, ctxDone, ops, delivered, linValue, crashed>>

\* RLock; cached := c.cached; RUnlock; return cached
computed_Get_read(t) ==
    /\ InFn(t, "Get", "read")
    /\ mu[Top(t).cell] = {}
    /\ stack' = Goto(t, [Top(t) EXCEPT !.pc = "ret", !.val = comp[Top(t).cell].cached])
    /\ UNCHANGED <<cfg, quota, comp, eff, ret, value, equal, subscribers, nextID, mu,
                   onPanicCalls, subscr, ctxDone, ops, delivered, linValue, crashed>>

\* computed_Get_lock without the second check of dirty: whoever gets the
\* lock computes.
computed_Get_lock_noRecheck(t) ==
    /\ InFn(t, "Get", "lock")
    /\ LET f == Top(t)
           c == f.cell
       IN
       /\ mu[c] = {}
       /\ mu' = [mu EXCEPT ![c] = {t}]
       /\ comp' = [comp EXCEPT ![c].computeCalls = @ + 1]
       /\ stack' = Goto(t, [f EXCEPT !.pc = "compute", !.acc = <<>>,
                                     !.old = comp[c].cached])
    /\ UNCHANGED <<cfg, quota, eff, ret, value, equal, subscribers, nextID,
                   onPanicCalls, subscr, ctxDone, ops, delivered, linValue, crashed>>

\* Slow path: Lock; the second check of dirty; either return c.cached (the
\* deferred Unlock) or call compute.
computed_Get_lock(t) ==
    /\ InFn(t, "Get", "lock")
    /\ LET f == Top(t)
           c == f.cell
       IN
       /\ mu[c] = {}
       /\ IF comp[c].dirty
          THEN /\ mu' = [mu EXCEPT ![c] = {t}]
               /\ comp' = [comp EXCEPT ![c].computeCalls = @ + 1]
               /\ stack' = Goto(t, [f EXCEPT !.pc = "compute", !.acc = <<>>,
                                             !.old = comp[c].cached])
          ELSE /\ stack' = Goto(t, [f EXCEPT !.pc = "ret", !.val = comp[c].cached])
               /\ UNCHANGED <<mu, comp>>
    /\ UNCHANGED <<cfg, quota, eff, ret, value, equal, subscribers, nextID,
                   onPanicCalls, subscr, ctxDone, ops, delivered, linValue, crashed>>

\* compute reads its next dependency, a signal: signal.Get (RLock; value; RUnlock).
compute_Get_signal(t) ==
    /\ InFn(t, "Get", "compute")
    /\ LET f == Top(t)
           d == cfg.deps[f.cell]
           i == Len(f.acc) + 1
       IN
       /\ i <= Len(d)
       /\ d[i] \in Sigs
       /\ mu[d[i]] = {}
       /\ stack' = Goto(t, [f EXCEPT !.acc = Append(@, value[d[i]])])
    /\ UNCHANGED <<cfg, quota, comp, eff, ret, value, equal, subscribers, nextID, mu,
                   onPanicCalls, subscr, ctxDone, ops, delivered, linValue, crashed>>

\* compute reads its next dependency, a computed: the call of its Get.
compute_Get_computed(t) ==
    /\ InFn(t, "Get", "compute")
    /\ LET f == Top(t)
           d == cfg.deps[f.cell]
           i == Len(f.acc) + 1
       IN
       /\ i <= Len(d)
       /\ d[i] \in Comps
       /\ stack' = Push(t, [f EXCEPT !.pc = "dep"], Frame("Get", "fast", d[i]))
    /\ UNCHANGED <<cfg, quota, comp, eff, ret, value, equal, subscribers, nextID, mu,
                   onPanicCalls, subscr, ctxDone, ops, delivered, linValue, crashed>>

\* The dependency's Get has returned its value to compute.
compute_Get_returned(t) ==
    /\ InFn(t, "Get", "dep")
    /\ stack' = Goto(t, [Top(t) EXCEPT !.pc = "compute", !.acc = Append(@, ret[t])])
    /\ ret' = [ret EXCEPT ![t] = 0]
    /\ UNCHANGED <<cfg, quota, comp, eff, value, equal, subscribers, nextID, mu,
                   onPanicCalls, subscr, ctxDone, ops, delivered, linValue, crashed>>

\* computed_Get_recompute assigning c.cached the zero value when compute panics.
computed_Get_recompute_clobber(t) ==
    /\ InFn(t, "Get", "compute")
    /\ LET f    == Top(t)
           c    == f.cell
           kind == cfg.compute[c]
           new  == IF ComputePanics(kind, f.acc) THEN 0 ELSE ComputeFn(kind, f.acc)
       IN
       /\ Len(f.acc) = Len(cfg.deps[c])
       /\ comp' = [comp EXCEPT ![c].dirty = FALSE, ![c].cached = new]
       /\ onPanicCalls' = IF ComputePanics(kind, f.acc)
                          THEN [onPanicCalls EXCEPT ![c] = @ + 1] ELSE onPanicCalls
       /\ stack' = Goto(t, [f EXCEPT !.pc = "ret", !.val = new,
                                     !.fault = ComputePanics(kind, f.acc)])
       /\ mu' = [mu EXCEPT ![c] = @ \ {t}]
    /\ UNCHANGED <<cfg, quota, eff, ret, value, equal, subscribers, nextID,
                   subscr, ctxDone, ops, delivered, linValue, crashed>>

\* computed_Get_recompute returning before c.dirty.Store(false) when compute panics.
computed_Get_recompute_keepDirty(t) ==
    /\ InFn(t, "Get", "compute")
    /\ LET f    == Top(t)
           c    == f.cell
           kind == cfg.compute[c]
       IN
       /\ Len(f.acc) = Len(cfg.deps[c])
       /\ IF ComputePanics(kind, f.acc)
          THEN /\ comp' = comp
               /\ onPanicCalls' = [onPanicCalls EXCEPT ![c] = @ + 1]
               /\ stack' = Goto(t, [f EXCEPT !.pc = "ret", !.val = comp[c].cached,
                                             !.fault = TRUE])
          ELSE /\ comp' = [comp EXCEPT ![c].dirty = FALSE,
                                       ![c].cached = ComputeFn(kind, f.acc)]
               /\ onPanicCalls' = onPanicCalls
               /\ stack' = Goto(t, [f EXCEPT !.pc = "ret",
                                             !.val = ComputeFn(kind, f.acc)])
       /\ mu' = [mu EXCEPT ![c] = @ \ {t}]
    /\ UNCHANGED <<cfg, quota, eff, ret, value, equal, subscribers, nextID,
                   subscr, ctxDone, ops, delivered, linValue, crashed>>

\* computed_Get_recompute without c.dirty.Store(false).
computed_Get_recompute_noClear(t) ==
    /\ InFn(t, "Get", "compute")
    /\ LET f    == Top(t)
           c    == f.cell
           kind == cfg.compute[c]
       IN
       /\ Len(f.acc) = Len(cfg.deps[c])
       /\ IF ComputePanics(kind, f.acc)
          THEN /\ comp' = comp
               /\ onPanicCalls' = [onPanicCalls EXCEPT ![c] = @ + 1]
               /\ stack' = Goto(t, [f EXCEPT !.pc = "ret", !.val = comp[c].cached,
                                             !.fault = TRUE])
          ELSE /\ comp' = [comp EXCEPT ![c].cached = ComputeFn(kind, f.acc)]
               /\ onPanicCalls' = onPanicCalls
               /\ stack' = Goto(t, [f EXCEPT !.pc = "ret",
                                             !.val = ComputeFn(kind, f.acc)])
       /\ mu' = [mu EXCEPT ![c] = @ \ {t}]
    /\ UNCHANGED <<cfg, quota, eff, ret, value, equal, subscribers, nextID,
                   subscr, ctxDone, ops, delivered, linValue, crashed>>

\* computed_Get_recompute clearing the flag without assigning c.cached when
\* compute returns.
computed_Get_recompute_noAssign(t) ==
    /\ InFn(t, "Get", "compute")
    /\ LET f    == Top(t)
           c    == f.cell
           kind == cfg.compute[c]
       IN
       /\ Len(f.acc) = Len(cfg.deps[c])
       /\ comp' = [comp EXCEPT ![c].dirty = FALSE]
       /\ onPanicCalls' = IF ComputePanics(kind, f.acc)
                          THEN [onPanicCalls EXCEPT ![c] = @ + 1] ELSE onPanicCalls
       /\ stack' = Goto(t, [f EXCEPT !.pc = "ret", !.val = comp[c].cached,
                                     !.fault = ComputePanics(kind, f.acc)])
       /\ mu' = [mu EXCEPT ![c] = @ \ {t}]
    /\ UNCHANGED <<cfg, quota, eff, ret, value, equal, subscribers, nextID,
                   subscr, ctxDone, ops, delivered, linValue, crashed>>

\* compute has read its dependencies: it returns, and c.cached is assigned,
\* or it panics, and the recover hands the panic to onPanic and keeps the
\* old c.cached.  Then c.dirty.Store(false); return c.cached; the deferred Unlock.
computed_Get_recompute(t) ==
    /\ InFn(t, "Get", "compute")
    /\ LET f    == Top(t)
           c    == f.cell
           kind == cfg.compute[c]
       IN
       /\ Len(f.acc) = Len(cfg.deps[c])
       /\ IF ComputePanics(kind, f.acc)
          THEN /\ comp' = [comp EXCEPT ![c].dirty = FALSE]
               /\ onPanicCalls' = [onPanicCalls EXCEPT ![c] = @ + 1]
               /\ stack' = Goto(t, [f EXCEPT !.pc = "ret", !.val = comp[c].cached,
                                             !.fault = TRUE])
          ELSE /\ comp' = [comp EXCEPT ![c].dirty = FALSE,
                                       ![c].cached = ComputeFn(kind, f.acc)]
               /\ onPanicCalls' = onPanicCalls
               /\ stack' = Goto(t, [f EXCEPT !.pc = "ret",
                                             !.val = ComputeFn(kind, f.acc)])
       /\ mu' = [mu EXCEPT ![c] = @ \ {t}]
    /\ UNCHANGED <<cfg, quota, eff, ret, value, equal, subscribers, nextID,
                   subscr, ctxDone, ops, delivered, linValue, crashed>>

\* computed_markDirty calling c.Get() without c.dirty.Store(true).
computed_markDirty_noStore(t) ==
    /\ InFn(t, "markDirty", "store")
    /\ LET f == Top(t) IN
       /\ comp' = comp
       /\ stack' = Push(t, [f EXCEPT !.pc = "got"], Frame("Get", "fast", f.cell))
    /\ UNCHANGED <<cfg, quota, eff, ret, value, equal, subscribers, nextID, mu,
                   onPanicCalls, subscr, ctxDone, ops, delivered, linValue, crashed>>

\* computed_markDirty going on to notifySubscribers with the cached value,
\* without the call of c.Get().
computed_markDirty_notifyFirst(t) ==
    /\ InFn(t, "markDirty", "store")
    /\ LET f == Top(t) IN
       /\ mu[f.cell] = {}
       /\ comp' = [comp EXCEPT ![f.cell].dirty = TRUE]
       /\ stack' = Goto(t, [f EXCEPT !.pc = NotifyPc("markDirty", Ids(f.cell)),
                                     !.val = comp[f.cell].cached,
                                     !.cbs = Ids(f.cell), !.snap = Ids(f.cell)])
    /\ UNCHANGED <<cfg, quota, eff, ret, value, equal, subscribers, nextID, mu,
                   onPanicCalls, subscr, ctxDone, ops, delivered, linValue, crashed>>

\* markDirty: c.dirty.Store(true), then the call of c.Get().
computed_markDirty(t) ==
    /\ InFn(t, "markDirty", "store")
    /\ LET f == Top(t) IN
       /\ comp' = [comp EXCEPT ![f.cell].dirty = TRUE]
       /\ stack' = Push(t, [f EXCEPT !.pc = "got"], Frame("Get", "fast", f.cell))
    /\ UNCHANGED <<cfg, quota, eff, ret, value, equal, subscribers, nextID, mu,
                   onPanicCalls, subscr, ctxDone, ops, delivered, linValue, crashed>>

\* computed_markDirty_notify returning without notifying anybody.
computed_markDirty_notify_none(t) ==
    /\ InFn(t, "markDirty", "got")
    /\ LET f == Top(t) IN
       /\ mu[f.cell] = {}
       /\ stack' = Goto(t, [f EXCEPT !.pc = "ret", !.val = ret[t]])
    /\ ret' = [ret EXCEPT ![t] = 0]
    /\ UNCHANGED <<cfg, quota, comp, eff, value, equal, subscribers, nextID, mu,
                   onPanicCalls, subscr, ctxDone, ops, delivered, linValue, crashed>>

\* markDirty: newValue := c.Get() has returned; notifySubscribers(newValue)
\* copies the subscribers under the read lock.
computed_markDirty_notify(t) ==
    /\ InFn(t, "markDirty", "got")
    /\ LET f == Top(t) IN
       /\ mu[f.cell] = {}
       /\ stack' = Goto(t, [f EXCEPT !.pc = NotifyPc("markDirty", Ids(f.cell)),
                                     !.val = ret[t],
                                     !.cbs = Ids(f.cell), !.snap = Ids(f.cell)])
    /\ ret' = [ret EXCEPT ![t] = 0]
    /\ UNCHANGED <<cfg, quota, comp, eff, value, equal, subscribers, nextID, mu,
                   onPanicCalls, subscr, ctxDone, ops, delivered, linValue, crashed>>

\* computed.notifySubscribers: one iteration of the loop, for a callback
\* supplied by a client (it records the value; a panic is recovered and
\* handed to onPanic).
computed_notifySubscribers(t) ==
    /\ InFn(t, "markDirty", "notify")
    /\ LET f == Top(t) IN
       \E id \in f.cbs :
          LET h == <<f.cell, id>> IN
          /\ subscr[h].kind = "user"
          /\ delivered' = [delivered EXCEPT ![h] = Append(@, f.val)]
          /\ onPanicCalls' = IF subscr[h].panics
                             THEN [onPanicCalls EXCEPT ![f.cell] = @ + 1]
                             ELSE onPanicCalls
          /\ stack' = Goto(t, [f EXCEPT !.cbs = @ \ {id},
                                        !.pc = NotifyPc(f.fn, f.cbs \ {id})])
    /\ UNCHANGED <<cfg, quota, comp, eff, ret, value, equal, subscribers, nextID, mu,
                   subscr, ctxDone, ops, linValue, crashed>>

\* ------------------------------------------------------------------ computed.Cleanup
\* Cleanup is called by a client: for _, unsub := range c.unsubscribes (the
\* range expression is evaluated once, here).
computed_Cleanup(t, c) ==
    /\ CanCall(t)
    /\ ops' = ops + 1
    /\ stack' = [stack EXCEPT ![t] =
                   <<[Frame("Cleanup", "unsub", c) EXCEPT
                        !.acc = comp[c].unsubscribes,
                        !.old = Len(comp[c].unsubscribes)]>>]
    /\ UNCHANGED <<cfg, quota, comp, eff, ret, value, equal, subscribers, nextID, mu,
                   onPanicCalls, subscr, ctxDone, delivered, linValue, crashed>>

\* computed_Cleanup_unsub going through the list without calling the closures.
computed_Cleanup_unsub_skip(t) ==
    /\ InFn(t, "Cleanup", "unsub")
    /\ Top(t).acc # <<>>
    /\ stack' = Goto(t, [Top(t) EXCEPT !.acc = Tail(@)])
    /\ UNCHANGED <<cfg, quota, comp, eff, ret, value, equal, subscribers, nextID, mu,
                   onPanicCalls, subscr, ctxDone, ops, delivered, linValue, crashed>>

\* Cleanup: unsub(), one iteration of the loop.
computed_Cleanup_unsub(t) ==
    /\ InFn(t, "Cleanup", "unsub")
    /\ Top(t).acc # <<>>
    /\ LET h == Head(Top(t).acc) IN
       stack' = Push(t, [Top(t) EXCEPT !.acc = Tail(@)],
                        [Frame("Unsubscribe", "delete", h[1]) EXCEPT !.id = h[2]])
    /\ UNCHANGED <<cfg, quota, comp, eff, ret, value, equal, subscribers, nextID, mu,
                   onPanicCalls, subscr, ctxDone, ops, delivered, linValue, crashed>>

\* Cleanup: c.unsubscribes = nil
computed_Cleanup_end(t) ==
    /\ InFn(t, "Cleanup", "unsub")
    /\ Top(t).acc = <<>>
    /\ comp' = [comp EXCEPT ![Top(t).cell].unsubscribes = <<>>]
    /\ stack' = Goto(t, [Top(t) EXCEPT !.pc = "ret"])
    /\ UNCHANGED <<cfg, quota, eff, ret, value, equal, subscribers, nextID, mu,
                   onPanicCalls, subscr, ctxDone, ops, delivered, linValue, crashed>>

\* ------------------------------------------------------------------ effect
Effects == {"E"}

\* The effect functions of the tests: "log" reads the dependency, records it
\* and returns a cleanup that remembers it; "panicBody" panics when the
\* dependency is 1 and returns no cleanup; "panicCleanup" returns a cleanup
\* that panics if the value its run read was 0; "panicBoth" does both.
BodyPanics(kind, v)     == kind \in {"panicBody", "panicBoth"} /\ v = 1
BodyCleanup(kind, k, v) == IF kind = "panicBody" THEN <<>> ELSE <<[k |-> k, v |-> v]>>
CleanupPanics(kind, cl) == kind \in {"panicCleanup", "panicBoth"} /\ cl.v = 0

\* The closure of trackDependencyHelper with onChange = e.run.
onChange_run(t) ==
    /\ Running(t) /\ Top(t).pc = "notify"
    /\ LET f == Top(t) IN
       \E id \in f.cbs :
          LET h == <<f.cell, id>> IN
          /\ subscr[h].kind = "run"
          /\ stack' = Push(t, [f EXCEPT !.cbs = @ \ {id},
                                        !.pc = NotifyPc(f.fn, f.cbs \ {id})],
                              Frame("run", "check", "E"))
    /\ UNCHANGED <<cfg, quota, comp, eff, ret, value, equal, subscribers, nextID, mu,
                   onPanicCalls, subscr, ctxDone, ops, delivered, linValue, crashed>>

\* EffectWithOptions is called: e := &effect{...}
EffectWithOptions_call(t) ==
    /\ CanCall(t)
    /\ eff.state = "none"
    /\ ops' = ops + 1
    /\ eff' = [eff EXCEPT !.state = "constructing"]
    /\ stack' = [stack EXCEPT ![t] = <<Frame("EffectWithOptions", "track", "E")>>]
    /\ UNCHANGED <<cfg, quota, comp, ret, value, equal, subscribers, nextID, mu,
                   onPanicCalls, subscr, ctxDone, delivered, linValue, crashed>>

\* EffectWithOptions is called again, after the effect made before was
\* stopped and dropped: e := &effect{...} is another object, and nothing
\* refers to the old one.
EffectWithOptions_next(t) ==
    /\ CanCall(t)
    /\ eff.state = "returned" /\ eff.stopped /\ eff.mu = {}
    /\ \A u \in DOMAIN stack : stack[u] = <<>>
    /\ ops' = ops + 1
    /\ eff' = [state |-> "constructing", stopped |-> FALSE, cleanup |-> <<>>, mu |-> {},
               unsubscribes |-> <<>>, events |-> <<>>, runs |-> 0,
               stops |-> 0, teardowns |-> 0, finals |-> 0, panics |-> 0]
    /\ stack' = [stack EXCEPT ![t] = <<Frame("EffectWithOptions", "track", "E")>>]
    /\ UNCHANGED <<cfg, quota, comp, ret, value, equal, subscribers, nextID, mu,
                   onPanicCalls, subscr, ctxDone, delivered, linValue, crashed>>

\* for _, dep := range deps { e.trackDependency(dep) }: one iteration.
\* trackDependencyHelper calls dep.SubscribeForever with the closure around
\* e.run, and the Unsubscribe it returns is appended to e.unsubscribes.
effect_trackDependency(t) ==
    /\ InFn(t, "EffectWithOptions", "track")
    /\ LET i == Len(eff.unsubscribes) + 1 IN
       /\ i <= Len(cfg.edeps)
       /\ TrackOutcome(cfg.edeps[i]) = "subscribe"
       /\ LET c  == cfg.edeps[i]
              id == nextID[c]
              h  == <<c, id>>
          IN
          /\ mu[c] = {}
          /\ nextID' = [nextID EXCEPT ![c] = @ + 1]
          /\ subscribers' = [subscribers EXCEPT ![c] = (id :> TRUE) @@ @]
          /\ subscr' = (h :> Subscription("run", "E", FALSE, "bg")) @@ subscr
          /\ eff' = [eff EXCEPT !.unsubscribes = Append(@, h)]
    /\ UNCHANGED <<cfg, quota, comp, ret, value, equal, mu, onPanicCalls, ctxDone,
                   stack, ops, delivered, linValue, crashed>>

\* One iteration of the loop for a dependency subscribeAnyType gives up on:
\* nothing is subscribed anywhere and func() {} is appended to e.unsubscribes.
effect_trackDependency_fallback(t) ==
    /\ InFn(t, "EffectWithOptions", "track")
    /\ LET i == Len(eff.unsubscribes) + 1 IN
       /\ i <= Len(cfg.edeps)
       /\ TrackOutcome(cfg.edeps[i]) = "noop"
       /\ eff' = [eff EXCEPT !.unsubscribes = Append(@, NoopHandle)]
    /\ UNCHANGED <<cfg, quota, comp, ret, value, equal, subscribers, nextID, mu,
                   onPanicCalls, subscr, ctxDone, stack, ops, delivered, linValue,
                   crashed>>

\* One iteration of the loop for a dependency whose SubscribeForever takes a
\* non-function: reflect.MakeFunc panics, nothing between it and the caller
\* of EffectWithOptions recovers, and what was subscribed in the iterations
\* before stays subscribed.
effect_trackDependency_panic(t) ==
    /\ InFn(t, "EffectWithOptions", "track")
    /\ LET i == Len(eff.unsubscribes) + 1 IN
       /\ i <= Len(cfg.edeps)
       /\ TrackOutcome(cfg.edeps[i]) = "panic"
    /\ crashed' = TRUE
    /\ stack' = [stack EXCEPT ![t] = <<>>]
    /\ UNCHANGED <<cfg, quota, comp, eff, ret, value, equal, subscribers, nextID, mu,
                   onPanicCalls, subscr, ctxDone, ops, delivered, linValue>>

\* e.run(): the constructor's own call, after the loop over deps.
EffectWithOptions_run(t) ==
    /\ InFn(t, "EffectWithOptions", "track")
    /\ Len(eff.unsubscribes) = Len(cfg.edeps)
    /\ stack' = Push(t, [Top(t) EXCEPT !.pc = "return"], Frame("run", "check", "E"))
    /\ UNCHANGED <<cfg, quota, comp, eff, ret, value, equal, subscribers, nextID, mu,
                   onPanicCalls, subscr, ctxDone, ops, delivered, linValue, crashed>>

\* return e: from now on clients hold the EffectRef.
EffectWithOptions_return(t) ==
    /\ InFn(t, "EffectWithOptions", "return")
    /\ eff' = [eff EXCEPT !.state = "returned"]
    /\ stack' = Pop(t)
    /\ UNCHANGED <<cfg, quota, comp, ret, value, equal, subscribers, nextID, mu,
                   onPanicCalls, subscr, ctxDone, ops, delivered, linValue, crashed>>

\* run: if e.stopped.Load() { return }
effect_run_check(t) ==
    /\ InFn(t, "run", "check")
    /\ stack' = Goto(t, [Top(t) EXCEPT !.pc = IF eff.stopped THEN "ret" ELSE "lock"])
    /\ UNCHANGED <<cfg, quota, comp, eff, ret, value, equal, subscribers, nextID, mu,
                   onPanicCalls, subscr, ctxDone, ops, delivered, linValue, crashed>>

\* effect_run_lock giving up when e.mu is held, as with TryLock: the cycle of
\* a notification that arrives during another cycle is dropped.
effect_run_lock_try(t) ==
    /\ InFn(t, "run", "lock")
    /\ IF eff.stopped \/ eff.mu # {}
       THEN /\ stack' = Goto(t, [Top(t) EXCEPT !.pc = "ret"])
            /\ eff' = eff
       ELSE /\ stack' = Goto(t, [Top(t) EXCEPT !.pc = "cleanup"])
            /\ eff' = [eff EXCEPT !.mu = {t}]
    /\ UNCHANGED <<cfg, quota, comp, ret, value, equal, subscribers, nextID, mu,
                   onPanicCalls, subscr, ctxDone, ops, delivered, linValue, crashed>>

\* effect_run_lock going on without waiting for e.mu.
effect_run_lock_noWait(t) ==
    /\ InFn(t, "run", "lock")
    /\ IF eff.stopped
       THEN /\ stack' = Goto(t, [Top(t) EXCEPT !.pc = "ret"])
            /\ eff' = eff
       ELSE /\ stack' = Goto(t, [Top(t) EXCEPT !.pc = "cleanup"])
            /\ eff' = [eff EXCEPT !.mu = @ \cup {t}]
    /\ UNCHANGED <<cfg, quota, comp, ret, value, equal, subscribers, nextID, mu,
                   onPanicCalls, subscr, ctxDone, ops, delivered, linValue, crashed>>

\* run: e.mu.Lock(); the second check of e.stopped (return: the deferred Unlock).
effect_run_lock(t) ==
    /\ InFn(t, "run", "lock")
    /\ eff.mu = {}
    /\ IF eff.stopped
       THEN /\ stack' = Goto(t, [Top(t) EXCEPT !.pc = "ret"])
            /\ eff' = eff
       ELSE /\ stack' = Goto(t, [Top(t) EXCEPT !.pc = "cleanup"])
            /\ eff' = [eff EXCEPT !.mu = {t}]
    /\ UNCHANGED <<cfg, quota, comp, ret, value, equal, subscribers, nextID, mu,
                   onPanicCalls, subscr, ctxDone, ops, delivered, linValue, crashed>>

\* effect_run_cleanup dropping the old cleanup without calling it.
effect_run_cleanup_dropped(t) ==
    /\ InFn(t, "run", "cleanup")
    /\ eff' = [eff EXCEPT !.cleanup = <<>>]
    /\ stack' = Goto(t, [Top(t) EXCEPT !.pc = "body"])
    /\ UNCHANGED <<cfg, quota, comp, ret, value, equal, subscribers, nextID, mu,
                   onPanicCalls, subscr, ctxDone, ops, delivered, linValue, crashed>>

\* run, step 1: if e.cleanup != nil { oldCleanup := e.cleanup; e.cleanup = nil; oldCleanup() }
\* A panic of the cleanup is recovered and handed to onPanic.
effect_run_cleanup(t) ==
    /\ InFn(t, "run", "cleanup")
    /\ eff' = IF eff.cleanup # <<>>
              THEN [eff EXCEPT !.cleanup = <<>>,
                               !.events = Append(@, [e |-> "cleanup", k |-> eff.cleanup[1].k,
                                                     v |-> eff.cleanup[1].v,
                                                     src |-> Top(t).fn]),
                               !.panics = IF CleanupPanics(cfg.efn, eff.cleanup[1])
                                          THEN @ + 1 ELSE @]
              ELSE eff
    /\ stack' = Goto(t, [Top(t) EXCEPT !.pc = "body"])
    /\ UNCHANGED <<cfg, quota, comp, ret, value, equal, subscribers, nextID, mu,
                   onPanicCalls, subscr, ctxDone, ops, delivered, linValue, crashed>>

\* effect_run_body without the recover around e.fn(): the panic leaves run
\* and the calls above it.
effect_run_body_noRecover(t) ==
    /\ InFn(t, "run", "body")
    /\ LET c == cfg.edeps[1]
           v == value[c]
       IN
       /\ c \in Sigs
       /\ mu[c] = {}
       /\ eff' = [eff EXCEPT !.runs = @ + 1,
                             !.events = Append(@, [e |-> "body", k |-> eff.runs, v |-> v,
                                                   src |-> stack[t][2].fn])]
       /\ crashed' = BodyPanics(cfg.efn, v)
       /\ stack' = IF BodyPanics(cfg.efn, v)
                   THEN [stack EXCEPT ![t] = <<>>]
                   ELSE Goto(t, [Top(t) EXCEPT !.pc = "store",
                                               !.acc = BodyCleanup(cfg.efn, eff.runs, v),
                                               !.stored = TRUE])
    /\ UNCHANGED <<cfg, quota, comp, ret, value, equal, subscribers, nextID, mu,
                   onPanicCalls, subscr, ctxDone, ops, delivered, linValue>>

\* run, step 2: newCleanup = e.fn().  The body of the tests reads its first
\* dependency (a signal: RLock; value; RUnlock), records the value and
\* returns a cleanup, or panics: the panic is recovered and handed to onPanic,
\* and newCleanup stays nil.
effect_run_body(t) ==
    /\ InFn(t, "run", "body")
    /\ LET c == cfg.edeps[1]
           v == value[c]
       IN
       /\ c \in Sigs
       /\ mu[c] = {}
       /\ eff' = [eff EXCEPT !.runs = @ + 1,
                             !.events = Append(@, [e |-> "body", k |-> eff.runs, v |-> v,
                                                   src |-> stack[t][2].fn]),
                             !.panics = IF BodyPanics(cfg.efn, v) THEN @ + 1 ELSE @]
       /\ stack' = Goto(t, [Top(t) EXCEPT
                               !.pc = "store",
                               !.acc = IF BodyPanics(cfg.efn, v) THEN <<>>
                                       ELSE BodyCleanup(cfg.efn, eff.runs, v),
                               !.fault = BodyPanics(cfg.efn, v),
                               !.stored = TRUE])
    /\ UNCHANGED <<cfg, quota, comp, ret, value, equal, subscribers, nextID, mu,
                   onPanicCalls, subscr, ctxDone, ops, delivered, linValue, crashed>>

\* run, step 3: e.cleanup = newCleanup; the deferred Unlock.
effect_run_store(t) ==
    /\ InFn(t, "run", "store")
    /\ eff' = [eff EXCEPT !.cleanup = Top(t).acc, !.mu = @ \ {t}]
    /\ stack' = Goto(t, [Top(t) EXCEPT !.pc = "ret", !.acc = <<>>])
    /\ UNCHANGED <<cfg, quota, comp, ret, value, equal, subscribers, nextID, mu,
                   onPanicCalls, subscr, ctxDone, ops, delivered, linValue, crashed>>

\* effect_Stop with e.stopped.Store(true) in place of the Swap: every call
\* goes on to the teardown.
effect_Stop_store(t) ==
    /\ CanCall(t)
    /\ eff.state = "returned"
    /\ ops' = ops + 1
    /\ eff' = [eff EXCEPT !.stopped = TRUE, !.stops = @ + 1]
    /\ stack' = [stack EXCEPT ![t] = <<Frame("Stop", "lock", "E")>>]
    /\ UNCHANGED <<cfg, quota, comp, ret, value, equal, subscribers, nextID, mu,
                   onPanicCalls, subscr, ctxDone, delivered, linValue, crashed>>

\* Stop is called by a client that holds the EffectRef:
\* if e.stopped.Swap(true) { return }
effect_Stop(t) ==
    /\ CanCall(t)
    /\ eff.state = "returned"
    /\ ops' = ops + 1
    /\ eff' = [eff EXCEPT !.stopped = TRUE, !.stops = @ + 1]
    /\ stack' = [stack EXCEPT ![t] =
                   <<Frame("Stop", IF eff.stopped THEN "ret" ELSE "lock", "E")>>]
    /\ UNCHANGED <<cfg, quota, comp, ret, value, equal, subscribers, nextID, mu,
                   onPanicCalls, subscr, ctxDone, delivered, linValue, crashed>>

\* Stop: e.mu.Lock()
effect_Stop_lock(t) ==
    /\ InFn(t, "Stop", "lock")
    /\ eff.mu = {}
    /\ eff' = [eff EXCEPT !.mu = {t}, !.teardowns = @ + 1]
    /\ stack' = Goto(t, [Top(t) EXCEPT !.pc = "final"])
    /\ UNCHANGED <<cfg, quota, comp, ret, value, equal, subscribers, nextID, mu,
                   onPanicCalls, subscr, ctxDone, ops, delivered, linValue, crashed>>

\* Stop: if e.cleanup != nil { cleanup := e.cleanup; e.cleanup = nil; cleanup() }
\* A panic of the cleanup is recovered and handed to onPanic.
effect_Stop_cleanup(t) ==
    /\ InFn(t, "Stop", "final")
    /\ eff' = IF eff.cleanup # <<>>
              THEN [eff EXCEPT !.cleanup = <<>>,
                               !.finals = @ + 1,
                               !.events = Append(@, [e |-> "cleanup", k |-> eff.cleanup[1].k,
                                                     v |-> eff.cleanup[1].v,
                                                     src |-> Top(t).fn]),
                               !.panics = IF CleanupPanics(cfg.efn, eff.cleanup[1])
                                          THEN @ + 1 ELSE @]
              ELSE eff
    /\ stack' = Goto(t, [Top(t) EXCEPT !.pc = "unsub", !.acc = eff.unsubscribes])
    /\ UNCHANGED <<cfg, quota, comp, ret, value, equal, subscribers, nextID, mu,
                   onPanicCalls, subscr, ctxDone, ops, delivered, linValue, crashed>>

\* effect_Stop_unsub going through e.unsubscribes without calling the closures.
effect_Stop_unsub_skip(t) ==
    /\ InFn(t, "Stop", "unsub")
    /\ Top(t).acc # <<>>
    /\ stack' = Goto(t, [Top(t) EXCEPT !.acc = Tail(@)])
    /\ UNCHANGED <<cfg, quota, comp, eff, ret, value, equal, subscribers, nextID, mu,
                   onPanicCalls, subscr, ctxDone, ops, delivered, linValue, crashed>>

\* Stop: for _, unsub := range e.unsubscribes { unsub() }: one iteration.
effect_Stop_unsub(t) ==
    /\ InFn(t, "Stop", "unsub")
    /\ Top(t).acc # <<>>
    /\ Head(Top(t).acc) # NoopHandle
    /\ LET h == Head(Top(t).acc) IN
       stack' = Push(t, [Top(t) EXCEPT !.acc = Tail(@)],
                        [Frame("Unsubscribe", "delete", h[1]) EXCEPT !.id = h[2]])
    /\ UNCHANGED <<cfg, quota, comp, eff, ret, value, equal, subscribers, nextID, mu,
                   onPanicCalls, subscr, ctxDone, ops, delivered, linValue, crashed>>

\* Stop: one iteration of the loop over e.unsubscribes whose unsub is the
\* func() {} of a fallback path.
effect_Stop_unsub_noop(t) ==
    /\ InFn(t, "Stop", "unsub")
    /\ Top(t).acc # <<>>
    /\ Head(Top(t).acc) = NoopHandle
    /\ stack' = Goto(t, [Top(t) EXCEPT !.acc = Tail(@)])
    /\ UNCHANGED <<cfg, quota, comp, eff, ret, value, equal, subscribers, nextID, mu,
                   onPanicCalls, subscr, ctxDone, ops, delivered, linValue, crashed>>

\* Stop: e.unsubscribes = nil; the deferred Unlock.
effect_Stop_end(t) ==
    /\ InFn(t, "Stop", "unsub")
    /\ Top(t).acc = <<>>
    /\ eff' = [eff EXCEPT !.unsubscribes = <<>>, !.mu = @ \ {t}]
    /\ stack' = Goto(t, [Top(t) EXCEPT !.pc = "ret"])
    /\ UNCHANGED <<cfg, quota, comp, ret, value, equal, subscribers, nextID, mu,
                   onPanicCalls, subscr, ctxDone, ops, delivered, linValue, crashed>>

\* run, step 2, for an effect function that calls back into the library:
\* "setDep" reads its dependency and, if it is 0, sets it to 1
\* (func() { if a.Get() == 0 { a.Set(1) } }); "stopSelf" reads its dependency
\* and, if it is 1 and the EffectRef has been assigned, stops the effect
\* (func() { if a.Get() == 1 && ref != nil { ref.Stop() } }).  This step is
\* the read; the call is the next step, and e.mu stays locked meanwhile.
effect_run_body_reentrant(t) ==
    /\ InFn(t, "run", "body")
    /\ LET c == cfg.edeps[1]
           v == value[c]
       IN
       /\ c \in Sigs
       /\ mu[c] = {}
       /\ eff' = [eff EXCEPT !.runs = @ + 1,
                             !.events = Append(@, [e |-> "body", k |-> eff.runs, v |-> v,
                                                   src |-> stack[t][2].fn])]
       /\ stack' = Goto(t, [Top(t) EXCEPT
                               !.pc = IF cfg.efn = "setDep" /\ v = 0 THEN "callSet"
                                      ELSE IF /\ cfg.efn = "stopSelf" /\ v = 1
                                              /\ eff.state = "returned" THEN "callStop"
                                      ELSE "store",
                               !.acc = BodyCleanup(cfg.efn, eff.runs, v),
                               !.stored = TRUE])
    /\ UNCHANGED <<cfg, quota, comp, ret, value, equal, subscribers, nextID, mu,
                   onPanicCalls, subscr, ctxDone, ops, delivered, linValue, crashed>>

\* The body calls a.Set(1) on the effect's own dependency: signal.Set, called
\* from inside run.
effect_body_Set(t) ==
    /\ InFn(t, "run", "callSet")
    /\ LET c == cfg.edeps[1] IN
       /\ equal[c] = "nil" \/ mu[c] = {}
       /\ stack' = Push(t, [Top(t) EXCEPT !.pc = "store"],
                           [Frame("Set", IF EqualHolds(c, value[c], 1) THEN "ret" ELSE "store", c)
                              EXCEPT !.val = 1, !.old = value[c], !.pre = delivered,
                                     !.calls = [d \in Comps |-> comp[d].computeCalls],
                                     !.runs = eff.runs])
    /\ UNCHANGED <<cfg, quota, comp, eff, ret, value, equal, subscribers, nextID, mu,
                   onPanicCalls, subscr, ctxDone, ops, delivered, linValue, crashed>>

\* The body calls ref.Stop(): effect.Stop, called from inside run:
\* if e.stopped.Swap(true) { return }
effect_body_Stop(t) ==
    /\ InFn(t, "run", "callStop")
    /\ eff' = [eff EXCEPT !.stopped = TRUE, !.stops = @ + 1]
    /\ stack' = Push(t, [Top(t) EXCEPT !.pc = "store"],
                        Frame("Stop", IF eff.stopped THEN "ret" ELSE "lock", "E"))
    /\ UNCHANGED <<cfg, quota, comp, ret, value, equal, subscribers, nextID, mu,
                   onPanicCalls, subscr, ctxDone, ops, delivered, linValue, crashed>>

\* run, step 2, for an effect whose first dependency is a computed: the body
\* of the tests calls its Get (func() { log = append(log, doubled.Get()) }).
effect_run_body_Get(t) ==
    /\ InFn(t, "run", "body")
    /\ cfg.edeps[1] \in Comps
    /\ stack' = Push(t, [Top(t) EXCEPT !.pc = "got"], Frame("Get", "fast", cfg.edeps[1]))
    /\ UNCHANGED <<cfg, quota, comp, eff, ret, value, equal, subscribers, nextID, mu,
                   onPanicCalls, subscr, ctxDone, ops, delivered, linValue, crashed>>

\* The computed's Get has returned to the body, which records the value and
\* returns its cleanup.
effect_run_body_got(t) ==
    /\ InFn(t, "run", "got")
    /\ eff' = [eff EXCEPT !.runs = @ + 1,
                          !.events = Append(@, [e |-> "body", k |-> eff.runs, v |-> ret[t],
                                                src |-> stack[t][2].fn])]
    /\ ret' = [ret EXCEPT ![t] = 0]
    /\ stack' = Goto(t, [Top(t) EXCEPT !.pc = "store",
                                       !.acc = BodyCleanup(cfg.efn, eff.runs, ret[t]),
                                       !.stored = TRUE])
    /\ UNCHANGED <<cfg, quota, comp, value, equal, subscribers, nextID, mu,
                   onPanicCalls, subscr, ctxDone, ops, delivered, linValue, crashed>>

\* ------------------------------------------------------------------ initial states
\* New(0) for every signal; no goroutine has called anything, no effect exists.
InitBase ==
    /\ value = [c \in Sigs |-> 0]
    /\ linValue = value
    /\ mu = [c \in Cells |-> {}]
    /\ onPanicCalls = [c \in Cells |-> 0]
    /\ ctxDone = [x \in Ctxs |-> FALSE]
    /\ stack = [t \in Threads |-> <<>>]
    /\ ops = 0
    /\ ret = [t \in Threads |-> 0]
    /\ crashed = FALSE
    /\ eff = [state |-> "none", stopped |-> FALSE, cleanup |-> <<>>, mu |-> {},
              unsubscribes |-> <<>>, events |-> <<>>, runs |-> 0,
              stops |-> 0, teardowns |-> 0, finals |-> 0, panics |-> 0]

\* No computed has been constructed.
InitObjects ==
    /\ InitBase
    /\ comp = [c \in Comps |-> [cached |-> 0, dirty |-> TRUE, unsubscribes |-> <<>>,
                                computeCalls |-> 0, gets |-> 0]]

NoCfg == [deps |-> [c \in Comps |-> <<>>], compute |-> [c \in Comps |-> "sum"],
          edeps |-> <<>>, efn |-> "log", source |-> NoSource]

\* A signal A, with or without Options.Equal, after two SubscribeForever
\* calls by clients; the first callback is one that panics.
InitSig ==
    /\ InitObjects
    /\ cfg = NoCfg
    /\ quota = MaxOps
    /\ equal \in [Sigs -> {"nil", "eq"}] /\ equal["B"] = "nil"
    /\ subscribers = [c \in Cells |-> IF c = "A" THEN (0 :> TRUE) @@ (1 :> TRUE) ELSE <<>>]
    /\ nextID = [c \in Cells |-> IF c = "A" THEN 2 ELSE 0]
    /\ subscr = (<<"A", 0>> :> Subscription("user", "", TRUE, "bg"))
                @@ (<<"A", 1>> :> Subscription("user", "", FALSE, "bg"))
    /\ delivered = (<<"A", 0>> :> <<>>) @@ (<<"A", 1>> :> <<>>)

SigStep(t) ==
    \/ \E v \in Values : signal_Set(t, "A", v)
    \/ signal_Set_store(t)
    \/ \E fn \in UpdFns : signal_Update(t, "A", fn)
    \/ signal_Update_apply(t)
    \/ signal_Update_relock(t)
    \/ signal_notifySubscribers(t)
    \/ Return(t)

NextSig == \E t \in Threads : SigStep(t)

SpecSig == InitSig /\ [][NextSig]_vars

\* The same signal used by one goroutine only, which also subscribes and
\* unsubscribes.
InitSeq ==
    /\ InitObjects
    /\ cfg = NoCfg
    /\ quota = MaxSeqOps
    /\ equal \in [Sigs -> {"nil", "eq"}] /\ equal["B"] = "nil"
    /\ subscribers = [c \in Cells |-> <<>>]
    /\ nextID = [c \in Cells |-> 0]
    /\ subscr = <<>>
    /\ delivered = <<>>

SubStep(t) ==
    \/ \E x \in Ctxs, p \in BOOLEAN : signal_Subscribe(t, "A", x, p)
    \/ \E h \in DOMAIN subscr : Unsubscribe(t, h)
    \/ Unsubscribe_select(t)
    \/ Unsubscribe_close(t)

WatcherStep ==
    \/ \E h \in DOMAIN subscr : watcher_ctxDone(h)
    \/ \E h \in DOMAIN subscr : watcher_done(h)
    \/ \E h \in DOMAIN subscr : watcher_delete(h)
    \/ \E h \in DOMAIN subscr : watcher_close(h)
    \/ ctx_cancel

NextSeq == SigStep(1) \/ SubStep(1) \/ signal_Get(1, "A")

SpecSeq == InitSeq /\ [][NextSeq]_vars

\* Subscriptions of a signal A: clients subscribe, unsubscribe and set, the
\* context is cancelled, the watcher goroutines run.
InitSub ==
    /\ InitObjects
    /\ cfg = NoCfg
    /\ quota = MaxOps
    /\ equal = [c \in Sigs |-> "nil"]
    /\ subscribers = [c \in Cells |-> <<>>]
    /\ nextID = [c \in Cells |-> 0]
    /\ subscr = <<>>
    /\ delivered = <<>>

NextSub ==
    \/ \E t \in Threads :
         \/ SubStep(t)
         \/ signal_Set(t, "A", 1)
         \/ signal_Set_store(t)
         \/ signal_notifySubscribers(t)
         \/ Return(t)
    \/ WatcherStep

SpecSub == InitSub /\ [][NextSub]_vars

\* A computed C over the signals A and B: ComputedWithOptions has subscribed
\* markDirty to both and has marked C dirty.
InitComp ==
    /\ InitBase
    /\ \E k \in {"sum", "panicky"} :
         cfg = [deps |-> [c \in Comps |-> IF c = "C" THEN <<"A", "B">> ELSE <<>>],
                compute |-> [c \in Comps |-> k], edeps |-> <<>>, efn |-> "log", source |-> NoSource]
    /\ comp = [c \in Comps |-> [cached |-> 0, dirty |-> TRUE,
                                unsubscribes |-> IF c = "C" THEN << <<"A", 0>>, <<"B", 0>> >>
                                                 ELSE <<>>,
                                computeCalls |-> 0, gets |-> 0]]
    /\ quota = MaxOps
    /\ equal = [c \in Sigs |-> "nil"]
    /\ subscribers = [c \in Cells |-> IF c \in Sigs THEN (0 :> TRUE) ELSE <<>>]
    /\ nextID = [c \in Cells |-> IF c \in Sigs THEN 1 ELSE 0]
    /\ subscr = (<<"A", 0>> :> Subscription("markDirty", "C", FALSE, "bg"))
                @@ (<<"B", 0>> :> Subscription("markDirty", "C", FALSE, "bg"))
    /\ delivered = <<>>

NextComp ==
    \E t \in Threads :
       \/ \E c \in Sigs, v \in Values : signal_Set(t, c, v)
       \/ signal_Set_store(t)
       \/ onChange_markDirty(t)
       \/ computed_markDirty(t)
       \/ computed_Get(t, "C")
       \/ computed_Get_fast(t)
       \/ computed_Get_read(t)
       \/ computed_Get_lock(t)
       \/ compute_Get_signal(t)
       \/ computed_Get_recompute(t)
       \/ computed_markDirty_notify(t)
       \/ Return(t)

SpecComp == InitComp /\ [][NextComp]_vars

\* A signal A and an effect over it, constructed by one of the goroutines
\* while the others already set A; Stop once the EffectRef is returned.
InitEff ==
    /\ InitObjects
    /\ cfg = [NoCfg EXCEPT !.edeps = <<"A">>]
    /\ quota = MaxOps + 1
    /\ equal = [c \in Sigs |-> "nil"]
    /\ subscribers = [c \in Cells |-> <<>>]
    /\ nextID = [c \in Cells |-> 0]
    /\ subscr = <<>>
    /\ delivered = <<>>

NextEff ==
    \/ \E t \in Threads :
         \/ EffectWithOptions_call(t)
         \/ effect_trackDependency(t)
         \/ EffectWithOptions_run(t)
         \/ EffectWithOptions_return(t)
         \/ \E v \in Values : signal_Set(t, "A", v)
         \/ signal_Set_store(t)
         \/ onChange_run(t)
         \/ effect_run_check(t)
         \/ effect_run_lock(t)
         \/ effect_run_cleanup(t)
         \/ effect_run_body(t)
         \/ effect_run_store(t)
         \/ effect_Stop(t)
         \/ effect_Stop_lock(t)
         \/ effect_Stop_cleanup(t)
         \/ effect_Stop_unsub(t)
         \/ effect_Stop_end(t)
         \/ Unsubscribe_delete(t)
         \/ Unsubscribe_select(t)
         \/ Unsubscribe_close(t)
         \/ Return(t)
    \/ \E h \in DOMAIN subscr : watcher_done(h)

SpecEff == InitEff /\ [][NextEff]_vars

\* The effect over A after EffectWithCleanup has returned it (the body has run
\* once and its cleanup is stored), and one goroutine more than elsewhere:
\* goroutines set A and call Stop on the EffectRef.
Stoppers == 1 .. NumThreads + 1

InitStop ==
    /\ value = [c \in Sigs |-> 0]
    /\ linValue = value
    /\ mu = [c \in Cells |-> {}]
    /\ onPanicCalls = [c \in Cells |-> 0]
    /\ ctxDone = [x \in Ctxs |-> FALSE]
    /\ stack = [t \in Stoppers |-> <<>>]
    /\ ret = [t \in Stoppers |-> 0]
    /\ ops = 0
    /\ quota = MaxOps
    /\ crashed = FALSE
    /\ cfg = [NoCfg EXCEPT !.edeps = <<"A">>]
    /\ comp = [c \in Comps |-> [cached |-> 0, dirty |-> TRUE, unsubscribes |-> <<>>,
                                computeCalls |-> 0, gets |-> 0]]
    /\ eff = [state |-> "returned", stopped |-> FALSE,
              cleanup |-> <<[k |-> 0, v |-> 0]>>, mu |-> {},
              unsubscribes |-> << <<"A", 0>> >>,
              events |-> <<[e |-> "body", k |-> 0, v |-> 0, src |-> "EffectWithOptions"]>>,
              runs |-> 1, stops |-> 0, teardowns |-> 0, finals |-> 0, panics |-> 0]
    /\ equal = [c \in Sigs |-> "nil"]
    /\ subscribers = [c \in Cells |-> IF c = "A" THEN (0 :> TRUE) ELSE <<>>]
    /\ nextID = [c \in Cells |-> IF c = "A" THEN 1 ELSE 0]
    /\ subscr = (<<"A", 0>> :> Subscription("run", "E", FALSE, "bg"))
    /\ delivered = <<>>

NextStop ==
    \/ \E t \in Stoppers :
         \/ \E v \in Values : signal_Set(t, "A", v)
         \/ signal_Set_store(t)
         \/ onChange_run(t)
         \/ effect_run_check(t)
         \/ effect_run_lock(t)
         \/ effect_run_cleanup(t)
         \/ effect_run_body(t)
         \/ effect_run_store(t)
         \/ effect_Stop(t)
         \/ effect_Stop_lock(t)
         \/ effect_Stop_cleanup(t)
         \/ effect_Stop_unsub(t)
         \/ effect_Stop_end(t)
         \/ Unsubscribe_delete(t)
         \/ Unsubscribe_select(t)
         \/ Unsubscribe_close(t)
         \/ Return(t)
    \/ \E h \in DOMAIN subscr : watcher_done(h)

SpecStop == InitStop /\ [][NextStop]_vars

\* A signal A whose clients set and update it while others subscribe and
\* unsubscribe.
InitRound ==
    /\ InitObjects
    /\ cfg = NoCfg
    /\ quota = MaxOps
    /\ equal = [c \in Sigs |-> "nil"]
    /\ subscribers = [c \in Cells |-> <<>>]
    /\ nextID = [c \in Cells |-> 0]
    /\ subscr = <<>>
    /\ delivered = <<>>

NextRound ==
    \/ \E t \in Threads :
         \/ SigStep(t)
         \/ signal_Subscribe(t, "A", "bg", FALSE)
         \/ \E h \in DOMAIN subscr : Unsubscribe(t, h)
         \/ Unsubscribe_select(t)
         \/ Unsubscribe_close(t)
    \/ \E h \in DOMAIN subscr : watcher_done(h)

SpecRound == InitRound /\ [][NextRound]_vars

\* One goroutine, a signal A, C = Computed(2 * A.Get(), A) and
\* D = Computed(C.Get() + 1, C), with a client's SubscribeForever on C and
\* on D: the constructors have subscribed markDirty of C to A and markDirty
\* of D to C, and both are dirty.
InitChain ==
    /\ InitBase
    /\ cfg = [deps |-> [c \in Comps |-> IF c = "C" THEN <<"A">>
                                        ELSE IF c = "D" THEN <<"C">> ELSE <<>>],
              compute |-> [c \in Comps |-> IF c = "C" THEN "double"
                                           ELSE IF c = "D" THEN "succ" ELSE "sum"],
              edeps |-> <<>>, efn |-> "log", source |-> NoSource]
    /\ comp = [c \in Comps |-> [cached |-> 0, dirty |-> TRUE,
                                unsubscribes |-> IF c = "C" THEN << <<"A", 0>> >>
                                                 ELSE IF c = "D" THEN << <<"C", 0>> >>
                                                 ELSE <<>>,
                                computeCalls |-> 0, gets |-> 0]]
    /\ quota = MaxSeqOps
    /\ equal = [c \in Sigs |-> "nil"]
    /\ subscribers = [c \in Cells |-> IF c = "A" THEN (0 :> TRUE)
                                      ELSE IF c = "C" THEN (0 :> TRUE) @@ (1 :> TRUE)
                                      ELSE IF c = "D" THEN (0 :> TRUE)
                                      ELSE <<>>]
    /\ nextID = [c \in Cells |-> IF c = "A" THEN 1
                                 ELSE IF c = "C" THEN 2
                                 ELSE IF c = "D" THEN 1 ELSE 0]
    /\ subscr = (<<"A", 0>> :> Subscription("markDirty", "C", FALSE, "bg"))
                @@ (<<"C", 0>> :> Subscription("markDirty", "D", FALSE, "bg"))
                @@ (<<"C", 1>> :> Subscription("user", "", FALSE, "bg"))
                @@ (<<"D", 0>> :> Subscription("user", "", FALSE, "bg"))
    /\ delivered = (<<"C", 1>> :> <<>>) @@ (<<"D", 0>> :> <<>>)

NextChain ==
    \/ \E v \in Values : signal_Set(1, "A", v)
    \/ signal_Set_store(1)
    \/ \E fn \in UpdFns : signal_Update(1, "A", fn)
    \/ signal_Update_apply(1)
    \/ signal_Update_relock(1)
    \/ onChange_markDirty(1)
    \/ computed_markDirty(1)
    \/ \E c \in {"C", "D"} : computed_Get(1, c)
    \/ computed_Get_fast(1)
    \/ computed_Get_read(1)
    \/ computed_Get_lock(1)
    \/ compute_Get_signal(1)
    \/ compute_Get_computed(1)
    \/ compute_Get_returned(1)
    \/ computed_Get_recompute(1)
    \/ computed_markDirty_notify(1)
    \/ computed_notifySubscribers(1)
    \/ Return(1)

SpecChain == InitChain /\ [][NextChain]_vars

\* Subscriptions of a signal A that nobody unsubscribes: one goroutine
\* subscribes (with the cancellable context or with context.Background()) and
\* sets, the context is cancelled at any moment, and the scheduler runs every
\* watcher goroutine that can take a step.
Handles == {"A"} \X (0 .. MaxSubs - 1)

WatcherOf(h) ==
    /\ h \in DOMAIN subscr
    /\ \/ watcher_ctxDone(h)
       \/ watcher_delete(h)
       \/ watcher_close(h)

NextCtx ==
    \/ \E x \in Ctxs : signal_Subscribe(1, "A", x, FALSE)
    \/ \E v \in Values : signal_Set(1, "A", v)
    \/ signal_Set_store(1)
    \/ signal_notifySubscribers(1)
    \/ Return(1)
    \/ \E h \in Handles : WatcherOf(h)
    \/ ctx_cancel

SpecCtx == InitSub /\ [][NextCtx]_vars /\ \A h \in Handles : WF_vars(WatcherOf(h))

\* An effect over the signals A and B after EffectWithCleanup has returned it
\* (TestEffect_MultipleDependencies): goroutines set A and increment B
\* concurrently and nobody stops the effect.
InitMulti ==
    /\ value = [c \in Sigs |-> 0]
    /\ linValue = value
    /\ mu = [c \in Cells |-> {}]
    /\ onPanicCalls = [c \in Cells |-> 0]
    /\ ctxDone = [x \in Ctxs |-> FALSE]
    /\ stack = [t \in Threads |-> <<>>]
    /\ ret = [t \in Threads |-> 0]
    /\ ops = 0
    /\ crashed = FALSE
    /\ comp = [c \in Comps |-> [cached |-> 0, dirty |-> TRUE, unsubscribes |-> <<>>,
                                computeCalls |-> 0, gets |-> 0]]
    /\ cfg = [NoCfg EXCEPT !.edeps = <<"A", "B">>]
    /\ quota = MaxOps
    /\ eff = [state |-> "returned", stopped |-> FALSE,
              cleanup |-> <<[k |-> 0, v |-> 0]>>, mu |-> {},
              unsubscribes |-> << <<"A", 0>>, <<"B", 0>> >>,
              events |-> <<[e |-> "body", k |-> 0, v |-> 0, src |-> "EffectWithOptions"]>>,
              runs |-> 1, stops |-> 0, teardowns |-> 0, finals |-> 0, panics |-> 0]
    /\ equal = [c \in Sigs |-> "nil"]
    /\ subscribers = [c \in Cells |-> IF c \in Sigs THEN (0 :> TRUE) ELSE <<>>]
    /\ nextID = [c \in Cells |-> IF c \in Sigs THEN 1 ELSE 0]
    /\ subscr = (<<"A", 0>> :> Subscription("run", "E", FALSE, "bg"))
                @@ (<<"B", 0>> :> Subscription("run", "E", FALSE, "bg"))
    /\ delivered = <<>>

NextMulti ==
    \E t \in Threads :
       \/ signal_Set(t, "A", 1)
       \/ signal_Set_store(t)
       \/ signal_Update(t, "B", "inc")
       \/ signal_Update_apply(t)
       \/ signal_Update_relock(t)
       \/ onChange_run(t)
       \/ effect_run_check(t)
       \/ effect_run_lock(t)
       \/ effect_run_cleanup(t)
       \/ effect_run_body(t)
       \/ effect_run_store(t)
       \/ Return(t)

SpecMulti == InitMulti /\ [][NextMulti]_vars

\* One goroutine, a signal A created with any value, and an effect over it
\* whose function or cleanup panics (TestEffect_PanicRecovery,
\* TestEffect_CleanupPanic): the goroutine constructs the effect, sets A and
\* stops the effect.
InitFault ==
    /\ value \in [Sigs -> Values] /\ value["B"] = 0
    /\ linValue = value
    /\ mu = [c \in Cells |-> {}]
    /\ onPanicCalls = [c \in Cells |-> 0]
    /\ ctxDone = [x \in Ctxs |-> FALSE]
    /\ stack = [t \in Threads |-> <<>>]
    /\ ret = [t \in Threads |-> 0]
    /\ ops = 0
    /\ quota = MaxSeqOps
    /\ crashed = FALSE
    /\ \E k \in {"panicBody", "panicCleanup", "panicBoth"} :
          cfg = [NoCfg EXCEPT !.edeps = <<"A">>, !.efn = k]
    /\ comp = [c \in Comps |-> [cached |-> 0, dirty |-> TRUE, unsubscribes |-> <<>>,
                                computeCalls |-> 0, gets |-> 0]]
    /\ eff = [state |-> "none", stopped |-> FALSE, cleanup |-> <<>>, mu |-> {},
              unsubscribes |-> <<>>, events |-> <<>>, runs |-> 0,
              stops |-> 0, teardowns |-> 0, finals |-> 0, panics |-> 0]
    /\ equal = [c \in Sigs |-> "nil"]
    /\ subscribers = [c \in Cells |-> <<>>]
    /\ nextID = [c \in Cells |-> 0]
    /\ subscr = <<>>
    /\ delivered = <<>>

NextFault ==
    \/ EffectWithOptions_call(1)
    \/ effect_trackDependency(1)
    \/ EffectWithOptions_run(1)
    \/ EffectWithOptions_return(1)
    \/ \E v \in Values : signal_Set(1, "A", v)
    \/ signal_Set_store(1)
    \/ onChange_run(1)
    \/ effect_run_check(1)
    \/ effect_run_lock(1)
    \/ effect_run_cleanup(1)
    \/ effect_run_body(1)
    \/ effect_run_store(1)
    \/ effect_Stop(1)
    \/ effect_Stop_lock(1)
    \/ effect_Stop_cleanup(1)
    \/ effect_Stop_unsub(1)
    \/ effect_Stop_end(1)
    \/ Unsubscribe_delete(1)
    \/ Unsubscribe_select(1)
    \/ Unsubscribe_close(1)
    \/ Return(1)
    \/ \E h \in DOMAIN subscr : watcher_done(h)

SpecFault == InitFault /\ [][NextFault]_vars

\* One goroutine and a diamond: a signal A, C = Computed(2 * A.Get(), A),
\* D = Computed(A.Get() + 1, A) and F = Computed(C.Get() + D.Get(), C, D),
\* with a client's SubscribeForever on F.  The constructors have subscribed
\* markDirty of C and of D to A and markDirty of F to C and to D.
InitDiamond ==
    /\ InitBase
    /\ cfg = [deps |-> [c \in Comps |-> IF c = "F" THEN <<"C", "D">> ELSE <<"A">>],
              compute |-> [c \in Comps |-> IF c = "C" THEN "double"
                                           ELSE IF c = "D" THEN "succ" ELSE "sum"],
              edeps |-> <<>>, efn |-> "log", source |-> NoSource]
    /\ comp = [c \in Comps |-> [cached |-> 0, dirty |-> TRUE,
                                unsubscribes |-> IF c = "C" THEN << <<"A", 0>> >>
                                                 ELSE IF c = "D" THEN << <<"A", 1>> >>
                                                 ELSE << <<"C", 0>>, <<"D", 0>> >>,
                                computeCalls |-> 0, gets |-> 0]]
    /\ quota = MaxSeqOps
    /\ equal = [c \in Sigs |-> "nil"]
    /\ subscribers = [c \in Cells |-> IF c = "A" THEN (0 :> TRUE) @@ (1 :> TRUE)
                                      ELSE IF c \in Comps THEN (0 :> TRUE)
                                      ELSE <<>>]
    /\ nextID = [c \in Cells |-> IF c = "A" THEN 2 ELSE IF c \in Comps THEN 1 ELSE 0]
    /\ subscr = (<<"A", 0>> :> Subscription("markDirty", "C", FALSE, "bg"))
                @@ (<<"A", 1>> :> Subscription("markDirty", "D", FALSE, "bg"))
                @@ (<<"C", 0>> :> Subscription("markDirty", "F", FALSE, "bg"))
                @@ (<<"D", 0>> :> Subscription("markDirty", "F", FALSE, "bg"))
                @@ (<<"F", 0>> :> Subscription("user", "", FALSE, "bg"))
    /\ delivered = (<<"F", 0>> :> <<>>)

NextDiamond ==
    \/ \E v \in Values : signal_Set(1, "A", v)
    \/ signal_Set_store(1)
    \/ onChange_markDirty(1)
    \/ computed_markDirty(1)
    \/ \E c \in Comps : computed_Get(1, c)
    \/ computed_Get_fast(1)
    \/ computed_Get_read(1)
    \/ computed_Get_lock(1)
    \/ compute_Get_signal(1)
    \/ compute_Get_computed(1)
    \/ compute_Get_returned(1)
    \/ computed_Get_recompute(1)
    \/ computed_markDirty_notify(1)
    \/ computed_notifySubscribers(1)
    \/ Return(1)

SpecDiamond == InitDiamond /\ [][NextDiamond]_vars

\* The chain of SpecChain, whose goroutine also calls Cleanup on C and on D.
NextCleanup ==
    \/ NextChain
    \/ \E c \in {"C", "D"} : computed_Cleanup(1, c)
    \/ computed_Cleanup_unsub(1)
    \/ computed_Cleanup_end(1)
    \/ Unsubscribe_delete(1)
    \/ Unsubscribe_select(1)
    \/ Unsubscribe_close(1)
    \/ \E h \in DOMAIN subscr : watcher_done(h)

SpecCleanup == InitChain /\ [][NextCleanup]_vars

\* One goroutine that creates an effect over A and B, sets A, stops the
\* effect and starts over (TestEffect_NoMemoryLeak).
InitLeak ==
    /\ InitObjects
    /\ cfg = [NoCfg EXCEPT !.edeps = <<"A", "B">>]
    /\ quota = MaxSeqOps
    /\ equal = [c \in Sigs |-> "nil"]
    /\ subscribers = [c \in Cells |-> <<>>]
    /\ nextID = [c \in Cells |-> 0]
    /\ subscr = <<>>
    /\ delivered = <<>>

NextLeak ==
    \/ EffectWithOptions_call(1)
    \/ EffectWithOptions_next(1)
    \/ effect_trackDependency(1)
    \/ EffectWithOptions_run(1)
    \/ EffectWithOptions_return(1)
    \/ \E v \in Values : signal_Set(1, "A", v)
    \/ signal_Set_store(1)
    \/ onChange_run(1)
    \/ effect_run_check(1)
    \/ effect_run_lock(1)
    \/ effect_run_cleanup(1)
    \/ effect_run_body(1)
    \/ effect_run_store(1)
    \/ effect_Stop(1)
    \/ effect_Stop_lock(1)
    \/ effect_Stop_cleanup(1)
    \/ effect_Stop_unsub(1)
    \/ effect_Stop_end(1)
    \/ Unsubscribe_delete(1)
    \/ Unsubscribe_select(1)
    \/ Unsubscribe_close(1)
    \/ Return(1)
    \/ \E h \in DOMAIN subscr : watcher_done(h)

SpecLeak == InitLeak /\ [][NextLeak]_vars

\* One goroutine that owns a signal A, makes the facade A.AsReadonly() and
\* uses both: Set, Update and Get on A, Get and SubscribeForever on the
\* facade (TestSignal_AsReadonly).
NextFacade ==
    \/ signal_AsReadonly(1, "A", "RA")
    \/ \E v \in Values : signal_Set(1, "A", v)
    \/ signal_Set_store(1)
    \/ signal_Update(1, "A", "inc")
    \/ signal_Update_apply(1)
    \/ signal_Update_relock(1)
    \/ signal_notifySubscribers(1)
    \/ signal_Get(1, "A")
    \/ readonlySignal_Get(1, "RA")
    \/ readonlySignal_Get_return(1)
    \/ readonlySignal_Subscribe(1, "RA", "bg", FALSE)
    \/ Return(1)

SpecFacade == InitSeq /\ [][NextFacade]_vars

\* One goroutine that passes A and one value that is no signal to
\* EffectWithCleanup, in either order, then sets A and stops the effect.
InitTrack ==
    /\ InitObjects
    /\ \E s \in Shapes :
          \E deps \in {<<"A", s>>, <<s, "A">>} : cfg = [NoCfg EXCEPT !.edeps = deps]
    /\ quota = MaxSeqOps
    /\ equal = [c \in Sigs |-> "nil"]
    /\ subscribers = [c \in Cells |-> <<>>]
    /\ nextID = [c \in Cells |-> 0]
    /\ subscr = <<>>
    /\ delivered = <<>>

NextTrack ==
    \/ EffectWithOptions_call(1)
    \/ effect_trackDependency(1)
    \/ effect_trackDependency_fallback(1)
    \/ effect_trackDependency_panic(1)
    \/ EffectWithOptions_run(1)
    \/ EffectWithOptions_return(1)
    \/ \E v \in Values : signal_Set(1, "A", v)
    \/ signal_Set_store(1)
    \/ onChange_run(1)
    \/ effect_run_check(1)
    \/ effect_run_lock(1)
    \/ effect_run_cleanup(1)
    \/ effect_run_body(1)
    \/ effect_run_store(1)
    \/ effect_Stop(1)
    \/ effect_Stop_lock(1)
    \/ effect_Stop_cleanup(1)
    \/ effect_Stop_unsub(1)
    \/ effect_Stop_unsub_noop(1)
    \/ effect_Stop_end(1)
    \/ Unsubscribe_delete(1)
    \/ Unsubscribe_select(1)
    \/ Unsubscribe_close(1)
    \/ Return(1)
    \/ \E h \in DOMAIN subscr : watcher_done(h)

SpecTrack == InitTrack /\ [][NextTrack]_vars

\* A signal A and an effect over it whose function is the logging one or
\* calls back into the library; one goroutine constructs the effect and
\* stops it, every goroutine sets A.  Each goroutine keeps running as long
\* as it has a step to take.
InitReentrant ==
    /\ InitObjects
    /\ \E fn \in {"log", "setDep", "stopSelf"} :
          cfg = [NoCfg EXCEPT !.edeps = <<"A">>, !.efn = fn]
    /\ quota = MaxOps
    /\ equal = [c \in Sigs |-> "nil"]
    /\ subscribers = [c \in Cells |-> <<>>]
    /\ nextID = [c \in Cells |-> 0]
    /\ subscr = <<>>
    /\ delivered = <<>>

ReentrantStep(t) ==
    \/ t = 1 /\ EffectWithOptions_call(t)
    \/ effect_trackDependency(t)
    \/ EffectWithOptions_run(t)
    \/ EffectWithOptions_return(t)
    \/ \E v \in Values : signal_Set(t, "A", v)
    \/ signal_Set_store(t)
    \/ onChange_run(t)
    \/ effect_run_check(t)
    \/ effect_run_lock(t)
    \/ effect_run_cleanup(t)
    \/ effect_run_body_reentrant(t)
    \/ effect_body_Set(t)
    \/ effect_body_Stop(t)
    \/ effect_run_store(t)
    \/ t = 1 /\ effect_Stop(t)
    \/ effect_Stop_lock(t)
    \/ effect_Stop_cleanup(t)
    \/ effect_Stop_unsub(t)
    \/ effect_Stop_end(t)
    \/ Unsubscribe_delete(t)
    \/ Unsubscribe_select(t)
    \/ Unsubscribe_close(t)
    \/ Return(t)

NextReentrant ==
    \/ \E t \in Threads : ReentrantStep(t)
    \/ \E h \in DOMAIN subscr : watcher_done(h)

\* A call in progress is a step the goroutine takes by itself, so only the
\* steps of a goroutine that is inside a call are fair: nobody has to start
\* a call.
SpecReentrant ==
    /\ InitReentrant /\ [][NextReentrant]_vars
    /\ \A t \in Threads : WF_vars(Running(t) /\ ReentrantStep(t))

\* A computed C over A and B that nobody has read yet, and goroutines that
\* only call C.Get() (TestComputed_ConcurrentReads); A and B hold any values
\* and are not set.
InitReads ==
    /\ value \in [Sigs -> Values]
    /\ linValue = value
    /\ mu = [c \in Cells |-> {}]
    /\ onPanicCalls = [c \in Cells |-> 0]
    /\ ctxDone = [x \in Ctxs |-> FALSE]
    /\ stack = [t \in Threads |-> <<>>]
    /\ ops = 0
    /\ ret = [t \in Threads |-> 0]
    /\ crashed = FALSE
    /\ eff = [state |-> "none", stopped |-> FALSE, cleanup |-> <<>>, mu |-> {},
              unsubscribes |-> <<>>, events |-> <<>>, runs |-> 0,
              stops |-> 0, teardowns |-> 0, finals |-> 0, panics |-> 0]
    /\ \E k \in {"sum", "panicky"} :
         cfg = [NoCfg EXCEPT !.deps["C"] = <<"A", "B">>, !.compute["C"] = k]
    /\ comp = [c \in Comps |-> [cached |-> 0, dirty |-> TRUE,
                                unsubscribes |-> IF c = "C" THEN << <<"A", 0>>, <<"B", 0>> >>
                                                 ELSE <<>>,
                                computeCalls |-> 0, gets |-> 0]]
    /\ quota = MaxOps
    /\ equal = [c \in Sigs |-> "nil"]
    /\ subscribers = [c \in Cells |-> IF c \in Sigs THEN (0 :> TRUE) ELSE <<>>]
    /\ nextID = [c \in Cells |-> IF c \in Sigs THEN 1 ELSE 0]
    /\ subscr = (<<"A", 0>> :> Subscription("markDirty", "C", FALSE, "bg"))
                @@ (<<"B", 0>> :> Subscription("markDirty", "C", FALSE, "bg"))
    /\ delivered = <<>>

NextReads ==
    \E t \in Threads :
       \/ computed_Get(t, "C")
       \/ computed_Get_read(t)
       \/ computed_Get_lock(t)
       \/ compute_Get_signal(t)
       \/ computed_Get_recompute(t)
       \/ Return(t)

SpecReads == InitReads /\ [][NextReads]_vars

\* The effect over A and B after its constructor has returned; the
\* goroutines set A and update B, and the first of them stops the effect.
NextSerial ==
    \/ \E t \in Threads :
         \/ signal_Set(t, "A", 1)
         \/ signal_Set_store(t)
         \/ signal_Update(t, "B", "inc")
         \/ signal_Update_apply(t)
         \/ signal_Update_relock(t)
         \/ onChange_run(t)
         \/ effect_run_check(t)
         \/ effect_run_lock(t)
         \/ effect_run_cleanup(t)
         \/ effect_run_body(t)
         \/ effect_run_store(t)
         \/ effect_Stop_lock(t)
         \/ effect_Stop_cleanup(t)
         \/ effect_Stop_unsub(t)
         \/ effect_Stop_end(t)
         \/ Unsubscribe_delete(t)
         \/ Unsubscribe_select(t)
         \/ Unsubscribe_close(t)
         \/ Return(t)
    \/ effect_Stop(1)
    \/ \E h \in DOMAIN subscr : watcher_done(h)

SpecSerial == InitMulti /\ [][NextSerial]_vars

\* base := New(0); doubled := Computed(2 * base, base); then one goroutine
\* makes an effect over doubled whose body logs doubled.Get(), and sets base
\* (TestEffect_ChainedSignals).
InitEffChain ==
    /\ InitBase
    /\ cfg = [NoCfg EXCEPT !.deps["C"] = <<"A">>, !.compute["C"] = "double",
                           !.edeps = <<"C">>]
    /\ comp = [c \in Comps |-> [cached |-> 0, dirty |-> TRUE,
                                unsubscribes |-> IF c = "C" THEN << <<"A", 0>> >> ELSE <<>>,
                                computeCalls |-> 0, gets |-> 0]]
    /\ quota = MaxSeqOps
    /\ equal = [c \in Sigs |-> "nil"]
    /\ subscribers = [c \in Cells |-> IF c = "A" THEN (0 :> TRUE) ELSE <<>>]
    /\ nextID = [c \in Cells |-> IF c = "A" THEN 1 ELSE 0]
    /\ subscr = (<<"A", 0>> :> Subscription("markDirty", "C", FALSE, "bg"))
    /\ delivered = <<>>

NextEffChain ==
    \/ EffectWithOptions_call(1)
    \/ effect_trackDependency(1)
    \/ EffectWithOptions_run(1)
    \/ EffectWithOptions_return(1)
    \/ \E v \in Values : signal_Set(1, "A", v)
    \/ signal_Set_store(1)
    \/ onChange_markDirty(1)
    \/ computed_markDirty(1)
    \/ computed_Get_fast(1)
    \/ computed_Get_read(1)
    \/ computed_Get_lock(1)
    \/ compute_Get_signal(1)
    \/ computed_Get_recompute(1)
    \/ computed_markDirty_notify(1)
    \/ onChange_run(1)
    \/ effect_run_check(1)
    \/ effect_run_lock(1)
    \/ effect_run_cleanup(1)
    \/ effect_run_body_Get(1)
    \/ effect_run_body_got(1)
    \/ effect_run_store(1)
    \/ Return(1)

SpecEffChain == InitEffChain /\ [][NextEffChain]_vars

\* Two signals A and B that have nothing to do with each other, a computed
\* C = 2 * A, and a subscriber of each signal; the goroutines set and read
\* A, and update and subscribe to B.
InitFrame ==
    /\ InitBase
    /\ cfg = [NoCfg EXCEPT !.deps["C"] = <<"A">>, !.compute["C"] = "double"]
    /\ comp = [c \in Comps |-> [cached |-> 0, dirty |-> TRUE,
                                unsubscribes |-> IF c = "C" THEN << <<"A", 0>> >> ELSE <<>>,
                                computeCalls |-> 0, gets |-> 0]]
    /\ quota = MaxOps
    /\ equal = [c \in Sigs |-> "nil"]
    /\ subscribers = [c \in Cells |-> IF c \in Sigs THEN (0 :> TRUE) ELSE <<>>]
    /\ nextID = [c \in Cells |-> IF c \in Sigs THEN 1 ELSE 0]
    /\ subscr = (<<"A", 0>> :> Subscription("markDirty", "C", FALSE, "bg"))
                @@ (<<"B", 0>> :> Subscription("user", "", FALSE, "bg"))
    /\ delivered = (<<"B", 0>> :> <<>>)

NextFrame ==
    \E t \in Threads :
       \/ signal_Set(t, "A", 1)
       \/ signal_Set_store(t)
       \/ signal_Update(t, "B", "inc")
       \/ signal_Update_apply(t)
       \/ signal_Update_relock(t)
       \/ signal_notifySubscribers(t)
       \/ signal_Get(t, "A")
       \/ signal_Subscribe(t, "B", "bg", FALSE)
       \/ onChange_markDirty(t)
       \/ computed_markDirty(t)
       \/ computed_Get_fast(t)
       \/ computed_Get_read(t)
       \/ computed_Get_lock(t)
       \/ compute_Get_signal(t)
       \/ computed_Get_recompute(t)
       \/ computed_markDirty_notify(t)
       \/ Return(t)

SpecFrame == InitFrame /\ [][NextFrame]_vars

\* Watcher goroutines under fair scheduling: clients subscribe to A, call the
\* returned closures and update A (which holds s.mu across steps), the
\* context is cancelled.  Every goroutine that can take a step eventually
\* takes one.
ClientStep(t) ==
    \/ \E x \in Ctxs : signal_Subscribe(t, "A", x, FALSE)
    \/ \E h \in DOMAIN subscr : Unsubscribe(t, h)
    \/ Unsubscribe_select(t)
    \/ Unsubscribe_close(t)
    \/ signal_Update(t, "A", "inc")
    \/ signal_Update_apply(t)
    \/ signal_Update_relock(t)
    \/ signal_notifySubscribers(t)
    \/ Return(t)

WatcherRun(h) ==
    /\ h \in DOMAIN subscr
    /\ \/ watcher_ctxDone(h)
       \/ watcher_done(h)
       \/ watcher_delete(h)
       \/ watcher_close(h)

NextWatch ==
    \/ \E t \in Threads : ClientStep(t)
    \/ \E h \in Handles : WatcherRun(h)
    \/ ctx_cancel

SpecWatch ==
    /\ InitSub
    /\ [][NextWatch]_vars
    /\ \A t \in Threads : WF_vars(Running(t) /\ ClientStep(t))
    /\ \A h \in Handles : WF_vars(WatcherRun(h))

\* A signal A with one subscriber whose Options.Equal is absent, value
\* equality, or a function that panics; clients set, update (with a transform
\* that may panic) and read it, and may or may not recover a panic that
\* reaches them.
InitPanic ==
    /\ InitObjects
    /\ cfg = NoCfg
    /\ quota = MaxOps
    /\ equal \in [Sigs -> {"nil", "eq", "boom"}] /\ equal["B"] = "nil"
    /\ subscribers = [c \in Cells |-> IF c = "A" THEN (0 :> TRUE) ELSE <<>>]
    /\ nextID = [c \in Cells |-> IF c = "A" THEN 1 ELSE 0]
    /\ subscr = (<<"A", 0>> :> Subscription("user", "", FALSE, "bg"))
    /\ delivered = (<<"A", 0>> :> <<>>)

NextPanic ==
    \E t \in Threads :
       \/ signal_Set(t, "A", 1)
       \/ signal_Set_equalPanics(t, "A", 1)
       \/ signal_Set_store(t)
       \/ \E fn \in {"inc", "boom"} : signal_Update(t, "A", fn)
       \/ signal_Update_apply(t)
       \/ signal_Update_panics(t)
       \/ signal_Update_relock(t)
       \/ signal_notifySubscribers(t)
       \/ signal_Get(t, "A")
       \/ Return(t)
       \/ client_panic(t)

SpecPanic == InitPanic /\ [][NextPanic]_vars

\* ------------------------------------------------------------------ properties
AllIdle == \A t \in Threads : stack[t] = <<>>

\* Goroutine t is about to return from a public call made by a client.
Returning(t, fn) == InFn(t, fn, "ret") /\ Len(stack[t]) = 1

\* The next step is t's recomputation step, and compute panics in it.
FaultingRecompute(t) ==
    /\ InFn(t, "Get", "compute")
    /\ Len(Top(t).acc) = Len(cfg.deps[Top(t).cell])
    /\ ComputePanics(cfg.compute[Top(t).cell], Top(t).acc)
    /\ stack'[t] # stack[t]

\* C1: the first Get on the computed, called after every Set on its
\* dependencies has returned, with no call in between and no compute fault,
\* returns compute applied to the dependencies' current values.
C1_GetAfterSetsIsCurrent ==
    \A t \in Threads :
       (/\ Returning(t, "Get")
        /\ Top(t).stored /\ Top(t).pre = ops
        /\ comp[Top(t).cell].gets = 1
        /\ cfg.compute[Top(t).cell] = "sum")
       => Top(t).val = ComputeFn("sum", DepValues(Top(t).cell))

\* C2: the done channel of a subscription is closed at most once, whatever
\* the interleaving of Unsubscribe calls and the cancellation of its context.
C2_DoneClosedOnce ==
    /\ ~crashed
    /\ \A h \in DOMAIN subscr : subscr[h].closes <= 1

\* C3: however many Stop calls are made, one of them at most tears down, the
\* final cleanup runs at most once, and once every call has returned the
\* cleanup stored last has run exactly once and none is stored.
C3_StopRunsFinalCleanupOnce ==
    /\ eff.teardowns <= 1
    /\ eff.finals <= 1
    /\ (eff.stopped /\ AllIdle) =>
          /\ eff.finals = 1
          /\ eff.cleanup = <<>>
          /\ eff.events[Len(eff.events)].e = "cleanup"
          /\ eff.events[Len(eff.events)].src = "Stop"
          /\ eff.events[Len(eff.events)].k = eff.runs - 1

C3_TwoStopsReturned == AllIdle /\ eff.stops >= 2

\* C4: when the constructor returns the body has run exactly once, and the
\* first execution of the body is the constructor's own.
C4_FirstRunIsTheConstructors ==
    /\ \A t \in Threads : InFn(t, "EffectWithOptions", "return") => eff.runs = 1
    /\ eff.events # <<>> => eff.events[1].src = "EffectWithOptions"

\* C5: the events of an effect with cleanup are body(0), cleanup(0), body(1),
\* cleanup(1), ...: every cleanup is the one the previous body returned, it
\* runs once, before the next body, and nothing runs before body(0).
C5_CleanupOrder ==
    \A i \in 1 .. Len(eff.events) :
       LET ev == eff.events[i] IN
       IF i % 2 = 1
       THEN ev.e = "body" /\ ev.k = (i - 1) \div 2
       ELSE /\ ev.e = "cleanup" /\ ev.k = (i - 2) \div 2
            /\ ev.v = eff.events[i - 1].v

C5_ThreeCycles == Len(eff.events) >= 5 /\ eff.events[5].src = "Set"

\* C6: no store to the cell falls between an Update's read and its write, so
\* the cell holds what the stores applied one after the other give: N
\* increments from 0 leave N.
C6_UpdateIsAtomic ==
    /\ value = linValue
    /\ \A t \in Threads : InFn(t, "Update", "apply") => value[Top(t).cell] = Top(t).old

C6_TwoConcurrentIncrements ==
    /\ value["A"] = 2
    /\ \A t \in {1, 2} : Running(t) /\ Top(t).fn = "Update" /\ Top(t).id = "inc"
                         /\ Top(t).stored

\* C7: with Options.Equal and one goroutine, a Set or Update whose new value
\* equals the current one stores nothing and notifies nobody, and any other
\* stores the new value and calls every subscriber exactly once with it.
C7_EqualDecidesStoreAndNotify ==
    \A t \in Threads :
       (equal["A"] = "eq" /\ (Returning(t, "Set") \/ Returning(t, "Update"))) =>
          LET f == Top(t)
              c == f.cell
          IN
          IF EqualFunc(f.old, f.val)
          THEN value[c] = f.old /\ delivered = f.pre
          ELSE /\ value[c] = f.val
               /\ \A h \in DOMAIN delivered :
                     delivered[h] = IF h[1] = c /\ h[2] \in Ids(c)
                                    THEN Append(f.pre[h], f.val) ELSE f.pre[h]

C7_SkippedAfterNotified ==
    /\ equal["A"] = "eq"
    /\ Returning(1, "Set") /\ ~Top(1).stored
    /\ \E h \in DOMAIN delivered : h[2] \in Ids("A") /\ Len(delivered[h]) >= 2

\* C8: a panic in a subscriber callback reaches onPanic once and nobody else:
\* the process lives, the other callbacks of the round are called, the value
\* and the subscriber set are what they were, and later rounds call
\* everybody again.
C8_SubscriberPanicIsIsolated ==
    /\ ~crashed
    /\ onPanicCalls["A"] = Len(delivered[<<"A", 0>>])
    /\ Ids("A") = {0, 1}
    /\ value = linValue
    /\ \A t \in Threads :
          (Running(t) /\ Top(t).stored /\ Top(t).pc \in {"relock", "ret"}) =>
             \A id \in Top(t).snap :
                Len(delivered[<<"A", id>>]) > Len(Top(t).pre[<<"A", id>>])
    /\ (AllIdle /\ equal["A"] = "nil") =>
          \A id \in Ids("A") : Len(delivered[<<"A", id>>]) = ops

C8_TwoRoundsWithPanics ==
    /\ onPanicCalls["A"] >= 2
    /\ Len(delivered[<<"A", 1>>]) >= 2

\* C9: when compute panics, the step that recovers calls onPanic once, leaves
\* cached as it was and makes Get return it; nothing propagates.
C9_ComputePanicKeepsCached ==
    [][\A t \in Threads :
          FaultingRecompute(t) =>
             LET c == Top(t).cell IN
             /\ comp'[c].cached = comp[c].cached
             /\ onPanicCalls'[c] = onPanicCalls[c] + 1
             /\ ~crashed'
             /\ Len(stack'[t]) = Len(stack[t])
             /\ stack'[t][1].pc = "ret"
             /\ stack'[t][1].val = comp[c].cached]_vars

C9_StaleValueReturned ==
    \E t \in Threads : InFn(t, "Get", "ret") /\ Top(t).fault /\ Top(t).val # 0

StopsReturned ==
    eff.stops - Cardinality({t \in DOMAIN stack :
                               stack[t] # <<>> /\ stack[t][Len(stack[t])].fn = "Stop"})

\* C11: once a Stop call has returned the body does not execute again, and
\* the stopped flag, once set, stays set.
C11_NoBodyAfterStopReturned ==
    [][/\ eff'.runs # eff.runs => StopsReturned = 0
       /\ eff.stopped => eff'.stopped]_vars

\* Goroutine t completes the critical section of its Set or Update in this
\* step: the value is stored and the callbacks are copied.
TakesSnapshot(t) ==
    /\ stack[t] # <<>> /\ stack'[t] # <<>>
    /\ Len(stack'[t]) = Len(stack[t])
    /\ ~stack[t][1].stored /\ stack'[t][1].stored

\* C12: the callbacks of a round are the subscribers present when the call's
\* critical section completed (one added later is not among them), each is
\* invoked at most once in the round and all of them before the round ends,
\* and each receives the value that call stored.
C12_RoundIsTheSnapshot ==
    [][\A t \in Threads :
          /\ TakesSnapshot(t) =>
                LET g == stack'[t][1] IN
                /\ g.snap = Ids(g.cell) /\ g.cbs = g.snap
                /\ value'[g.cell] = g.val
          /\ (Running(t) /\ Top(t).pc = "notify" /\ stack'[t] # stack[t]) =>
                LET f == Top(t)
                    g == stack'[t][1]
                IN
                \E id \in f.cbs \cap f.snap :
                   /\ delivered' = [delivered EXCEPT ![<<f.cell, id>>] = Append(@, f.val)]
                   /\ g.cbs = f.cbs \ {id} /\ g.snap = f.snap /\ g.val = f.val
                   /\ g.pc # "notify" => g.cbs = {}]_vars

C12_LateSubscriberSkipped ==
    \E t \in Threads :
       /\ Running(t) /\ Top(t).stored /\ Top(t).pc \in {"ret", "relock"}
       /\ Top(t).snap # {}
       /\ \E id \in Ids(Top(t).cell) \ Top(t).snap : delivered[<<Top(t).cell, id>>] = <<>>

\* Frame i of goroutine t is in its notification loop, or is the caller of a
\* callback that is running (a markDirty frame waiting for c.Get() is not).
Notifying(t, i) ==
    LET fr == stack[t][i] IN
    \/ fr.pc = "notify"
    \/ i > 1 /\ fr.fn \in {"Set", "Update"}
    \/ i > 1 /\ fr.fn = "markDirty" /\ fr.pc # "got"

Removed(h) == h[2] \notin Ids(h[1])

\* A round is in progress that has yet to invoke the callback of h.
InFlight(h) ==
    \E t \in DOMAIN stack : \E i \in 1 .. Len(stack[t]) :
       stack[t][i].cell = h[1] /\ h[2] \in stack[t][i].cbs

\* In this step the removed subscription h stays removed, no critical section
\* that completes copies its callback, and unless a round begun earlier is in
\* flight its callback is not invoked.
StaysOut(h) ==
    /\ h[2] \notin DOMAIN subscribers'[h[1]]
    /\ \A t \in Threads :
          (TakesSnapshot(t) /\ stack'[t][1].cell = h[1]) =>
             h[2] \notin stack'[t][1].snap
    /\ ~InFlight(h) => delivered'[h] = delivered[h]

\* C14: an Unsubscribe call has removed the subscription before it returns;
\* a removed subscription stays removed, no critical section that completes
\* afterwards copies its callback, and once no earlier round is in flight its
\* callback is not invoked again.
C14_UnsubscribedNeverInvoked ==
    [][/\ \A t \in Threads :
             (Running(t) /\ Top(t).fn = "Unsubscribe") =>
                Removed(<<Top(t).cell, Top(t).id>>)
       /\ \A h \in DOMAIN subscr : Removed(h) => StaysOut(h)]_vars

C14_SetAfterUnsubscribe ==
    \E h \in DOMAIN subscr :
       /\ subscr[h].closes > 0 /\ ~ctxDone[subscr[h].ctx]
       /\ delivered[h] = <<>>
       /\ \E t \in Threads : Returning(t, "Set") /\ Top(t).stored /\ Top(t).cell = h[1]

\* C15: when the context of a subscription is done, the watcher goroutine,
\* scheduled fairly, removes the subscription without any Unsubscribe call,
\* and from then on no mutation invokes its callback.
C15_CancelledContextRemoves ==
    /\ \A h \in Handles :
          (h \in DOMAIN subscr /\ subscr[h].ctx = "ctx" /\ ctxDone["ctx"])
             ~> (h \in DOMAIN subscr /\ Removed(h))
    /\ [][\A h \in DOMAIN subscr :
             (subscr[h].wpc \in {"close", "exit"}) => (Removed(h) /\ StaysOut(h))]_vars

C15_SetAfterCancel ==
    \E h \in DOMAIN subscr :
       /\ subscr[h].ctx = "ctx" /\ subscr[h].wpc = "exit" /\ Removed(h)
       /\ \E t \in Threads : /\ Returning(t, "Set") /\ Top(t).stored
                             /\ h[2] \notin Top(t).snap
                             /\ Top(t).pre[h] = delivered[h]

\* C16: without an equality function and with one goroutine, Set leaves the
\* value it was given and Update the transform of the value it read, and a
\* Get returns what the last of them left: the initial value at first.
C16_GetReturnsLastSet ==
    \A t \in Threads :
       equal["A"] = "nil" =>
          /\ Returning(t, "Set") =>
                /\ Top(t).stored
                /\ value[Top(t).cell] = Top(t).val
                /\ linValue[Top(t).cell] = Top(t).val
          /\ Returning(t, "Update") =>
                /\ Top(t).stored
                /\ value[Top(t).cell] = UpdateFn(Top(t).id, Top(t).old)
                /\ linValue[Top(t).cell] = value[Top(t).cell]
          /\ (Returning(t, "Get") /\ Top(t).cell \in Sigs) =>
                /\ Top(t).val = linValue[Top(t).cell]
                /\ ops = 1 => Top(t).val = 0

C16_GetAfterSetAndUpdate ==
    /\ equal["A"] = "nil"
    /\ Returning(1, "Get") /\ Top(1).val = 2 /\ ops >= 3

\* C17: without an equality function every Set, also one that leaves the
\* value unchanged, appends its value once to the log of every current
\* subscriber and to no other log, so the logs are in call order.
C17_EverySetNotifies ==
    \A t \in Threads :
       (equal["A"] = "nil" /\ Returning(t, "Set")) =>
          /\ Top(t).stored
          /\ \A h \in DOMAIN delivered :
                delivered[h] = IF h[1] = Top(t).cell /\ h[2] \in Ids(Top(t).cell)
                               THEN Append(Top(t).pre[h], Top(t).val)
                               ELSE Top(t).pre[h]

C17_SameValueTwice ==
    /\ equal["A"] = "nil"
    /\ Returning(1, "Set") /\ Top(1).old = Top(1).val
    /\ \E h \in DOMAIN delivered :
          /\ h[2] \in Ids("A")
          /\ Len(delivered[h]) >= 2
          /\ delivered[h][Len(delivered[h])] = Top(1).val
          /\ delivered[h][Len(delivered[h]) - 1] = Top(1).val

\* What a cell is worth: a signal its value, a computed its compute function
\* applied to what its dependencies are worth.
RECURSIVE Eval(_)
Eval(x) ==
    IF x \in Sigs THEN value[x]
    ELSE ComputeFn(cfg.compute[x], [i \in 1 .. Len(cfg.deps[x]) |-> Eval(cfg.deps[x][i])])

\* The computeds whose value a Get on c needs: c and its computed dependencies.
Needs(c) == {c} \cup {d \in Comps : \E i \in 1 .. Len(cfg.deps[c]) : cfg.deps[c][i] = d}

C19_Memoization ==
    /\ ops = 0 => \A c \in Comps : comp[c].dirty /\ comp[c].computeCalls = 0
    /\ \A t \in Threads :
          /\ (Returning(t, "Get") /\ Top(t).cell \in Comps) =>
                \A d \in Comps :
                   comp[d].computeCalls =
                      IF d \in Needs(Top(t).cell) /\ Top(t).calls[d] = 0
                      THEN 1 ELSE Top(t).calls[d]
          /\ ((Returning(t, "Set") \/ Returning(t, "Update")) /\ Top(t).stored) =>
                \A d \in Comps :
                   comp[d].computeCalls =
                      Top(t).calls[d] + IF cfg.deps[d] # <<>> THEN 1 ELSE 0

C19_GetsAroundOneChange ==
    /\ Returning(1, "Get") /\ Top(1).cell = "C"
    /\ comp["C"].computeCalls = 2
    /\ comp["C"].gets >= 3

\* C20: with one goroutine, a Get on C returns f1 of the value of A and a Get
\* on D returns f2 of that, whatever Sets, Updates and Gets came before.
C20_ChainPropagates ==
    \A t \in Threads :
       (Returning(t, "Get") /\ Top(t).cell \in Comps) => Top(t).val = Eval(Top(t).cell)

C20_ChainAfterSet ==
    /\ Returning(1, "Get") /\ Top(1).cell = "D"
    /\ value["A"] = 1 /\ Top(1).val = 3
    /\ comp["D"].computeCalls >= 2

\* The cycle that goroutine t's mutation in progress triggers has executed
\* the body.
CycleDone(t) ==
    /\ stack[t] # <<>>
    /\ \/ Top(t).fn = "run" /\ Top(t).stored
       \/ Top(t).fn \in {"Set", "Update"} /\ Top(t).stored /\ Top(t).cbs = {}

FaultingBody(t) ==
    /\ InFn(t, "run", "body")
    /\ BodyPanics(cfg.efn, value[cfg.edeps[1]])
    /\ stack'[t] # stack[t]

\* Goroutine t's next step calls the stored cleanup, in run or in Stop, and
\* the cleanup panics.
FaultingCleanup(t) ==
    /\ InFn(t, "run", "cleanup") \/ InFn(t, "Stop", "final")
    /\ eff.cleanup # <<>>
    /\ CleanupPanics(cfg.efn, eff.cleanup[1])
    /\ stack'[t] # stack[t]

\* C22: a panic of the effect function or of a cleanup is handed to onPanic
\* once and goes no further: the call of the constructor, Set or Stop it
\* happened in continues.  After a panicking cleanup run goes on to the
\* body and Stop to the unsubscribing; after a panicking body the cleanup
\* that run stores is none; and a later Set of the dependency runs the body
\* once more.
C22_EffectFaultIsIsolated ==
    [][/\ \A t \in Threads :
             /\ (FaultingBody(t) \/ FaultingCleanup(t)) =>
                   /\ eff'.panics = eff.panics + 1
                   /\ ~crashed'
                   /\ Len(stack'[t]) = Len(stack[t])
             /\ FaultingBody(t) =>
                   /\ stack'[t][1].pc = "store" /\ stack'[t][1].acc = <<>>
                   /\ eff'.runs = eff.runs + 1
             /\ (InFn(t, "run", "store") /\ Top(t).fault /\ stack'[t] # stack[t]) =>
                   eff'.cleanup = <<>>
             /\ FaultingCleanup(t) =>
                   /\ stack'[t][1].pc = IF Top(t).fn = "run" THEN "body" ELSE "unsub"
                   /\ eff'.cleanup = <<>>
             /\ (Returning(t, "Set") /\ Top(t).snap # {} /\ ~eff.stopped) =>
                   eff.runs = Top(t).runs + 1
       /\ eff'.panics # eff.panics =>
             \E t \in Threads : FaultingBody(t) \/ FaultingCleanup(t)]_vars

C22_RunsAfterBothFaults ==
    /\ cfg.efn = "panicBoth"
    /\ eff.panics = 2
    /\ Returning(1, "Set") /\ Top(1).val = 0
    /\ eff.runs = 3 /\ eff.cleanup # <<>>

\* What a cell is worth when A holds a.
RECURSIVE EvalAt(_, _)
EvalAt(x, a) ==
    IF x \in Sigs THEN (IF x = "A" THEN a ELSE value[x])
    ELSE ComputeFn(cfg.compute[x],
                   [i \in 1 .. Len(cfg.deps[x]) |-> EvalAt(cfg.deps[x][i], a)])

\* C23: every value a subscriber of a computed receives is the computed's
\* function of one state of the dependencies: in the diamond, of one value of
\* A, never of the new C with the old D or the reverse.
C23_GlitchFree ==
    \A h \in DOMAIN delivered :
       \A i \in 1 .. Len(delivered[h]) :
          \E a \in Values : delivered[h][i] = EvalAt(h[1], a)

\* C24: compute is invoked only in a Get that a caller made: a Set or Update
\* of a dependency marks the computed dirty and invokes no compute, so when
\* it returns every compute has run as often as when it was called.
C24_LazyEvaluation ==
    [][/\ \A c \in Comps :
             comp'[c].computeCalls # comp[c].computeCalls =>
                \E t \in Threads : /\ stack[t] # <<>>
                                   /\ stack[t][Len(stack[t])].fn = "Get"
                                   /\ stack'[t] # stack[t]
       /\ \A t \in Threads :
             (Returning(t, "Set") \/ Returning(t, "Update")) =>
                \A c \in Comps : comp[c].computeCalls = Top(t).calls[c]]_vars

\* No dependency's subscriber map holds a markDirty handler of the computed c.
Cleaned(c) ==
    \A h \in DOMAIN subscr :
       (subscr[h].kind = "markDirty" /\ subscr[h].tgt = c) => Removed(h)

\* C25: when Cleanup returns, the list of the computed is empty and none of
\* its handlers is in a dependency's subscriber map; a Set or Update of the
\* dependency made afterwards invokes neither its compute nor its
\* subscribers; and a Cleanup called on an empty list changes nothing.
C25_CleanupCancelsDependencies ==
    [][\A t \in Threads :
          /\ Returning(t, "Cleanup") =>
                /\ comp[Top(t).cell].unsubscribes = <<>>
                /\ Cleaned(Top(t).cell)
          /\ (Returning(t, "Set") \/ Returning(t, "Update")) =>
                \A c \in Comps :
                   Cleaned(c) =>
                      /\ comp[c].computeCalls = Top(t).calls[c]
                      /\ \A h \in DOMAIN delivered :
                            h[1] = c => delivered[h] = Top(t).pre[h]
          /\ (Running(t) /\ stack[t][Len(stack[t])].fn = "Cleanup"
                         /\ stack[t][Len(stack[t])].old = 0
                         /\ stack'[t] # stack[t]) =>
                /\ Len(stack[t]) = 1 /\ Len(stack'[t]) <= 1
                /\ UNCHANGED <<subscribers, subscr, comp, delivered, value, crashed>>]_vars

C25_StaleAfterCleanup ==
    /\ Returning(1, "Set") /\ Top(1).stored
    /\ Cleaned("C") /\ comp["C"].unsubscribes = <<>>
    /\ comp["C"].computeCalls >= 1
    /\ comp["C"].cached # Eval("C")

\* C26: when the Stop that tears the effect down returns, e.unsubscribes is
\* empty and no dependency's subscriber map holds an entry of the effect, and
\* that stays so: after any number of effects created and stopped on A and B
\* both maps are empty.
C26_StopCancelsDependencies ==
    (/\ eff.stopped
     /\ \A t \in Threads : Idle(t) \/ Returning(t, "Stop")) =>
       /\ eff.unsubscribes = <<>>
       /\ \A h \in DOMAIN subscr : subscr[h].kind = "run" => Removed(h)
       /\ \A c \in Sigs : Ids(c) = {}

C26_SecondEffectStopped ==
    /\ Returning(1, "Stop") /\ eff.teardowns = 1
    /\ nextID["A"] = 2 /\ nextID["B"] = 2
    /\ Ids("A") = {} /\ Ids("B") = {}

\* The outermost call of goroutine t is an operation of the facade.
InFacade(t) ==
    stack[t] # <<>> /\ stack[t][Len(stack[t])].fn = "readonlySignal.Get"

\* C27: with one goroutine, the facade's Get returns the value of the cell
\* AsReadonly was called on, which is what that cell's own Get returns; a
\* callback subscribed through the facade is an entry of that cell's
\* subscriber map and every Set or Update of the cell that notifies calls it
\* once with the new value; and no step of a facade operation changes a value.
C27_FacadeIsTheSameCell ==
    [][/\ \A t \in Threads :
             /\ Returning(t, "readonlySignal.Get") =>
                   /\ cfg.source[Top(t).cell] = "A"
                   /\ Top(t).val = value["A"]
                   /\ Top(t).val = linValue["A"]
             /\ (Returning(t, "Get") /\ Top(t).cell = "A") => Top(t).val = value["A"]
             /\ (InFacade(t) /\ stack'[t] # stack[t]) =>
                   /\ value' = value /\ linValue' = linValue
                   /\ delivered' = delivered
             /\ ((Returning(t, "Set") \/ Returning(t, "Update")) /\ Top(t).stored) =>
                   \A h \in DOMAIN subscr :
                      subscr[h].tgt \in Facades =>
                         delivered[h] = Append(Top(t).pre[h], Top(t).val)
       /\ \A h \in DOMAIN subscr :
             subscr[h].tgt \in Facades =>
                h[1] = cfg.source[subscr[h].tgt] /\ h[2] \in Ids(h[1])
       /\ subscr' # subscr => value' = value]_vars

C27_FacadeSeesSet ==
    /\ Returning(1, "readonlySignal.Get") /\ Top(1).val = 1
    /\ \E h \in DOMAIN subscr : subscr[h].tgt = "RA" /\ delivered[h] = <<1>>

\* C28: a dependency that is no signal (nil included) costs nothing and
\* raises nothing: no panic leaves the constructor, so an effect under
\* construction is still being constructed by some goroutine; the handle
\* kept for such a dependency is func() {}; only the signals among the
\* dependencies hold a subscription of the effect; and when Stop returns,
\* e.unsubscribes is empty.
C28_UnsupportedDependencyDegrades ==
    /\ ~crashed
    /\ eff.state = "constructing" =>
          \E t \in Threads : stack[t] # <<>> /\ stack[t][Len(stack[t])].fn = "EffectWithOptions"
    /\ \A i \in 1..Len(eff.unsubscribes) :
          cfg.edeps[i] \in Shapes <=> eff.unsubscribes[i] = NoopHandle
    /\ \A h \in DOMAIN subscr : h[1] \in Sigs /\ subscr[h].kind = "run"
    /\ \A t \in Threads : Returning(t, "Stop") => eff.unsubscribes = <<>>

\* C29: every call returns: a goroutine that is inside a call of the library
\* gets out of it, whatever the effect function calls itself.
C29_EveryCallReturns ==
    \A t \in Threads : Running(t) ~> Idle(t)

\* C30: with Options.Equal, the comparison and the store of a Set are one
\* step: whenever a Set stores (and goes on to notify with) its value, that
\* value differs, by the equality function, from the value the signal holds
\* at that moment.
C30_EqualCheckAndStoreAtomic ==
    [][\A t \in Threads :
          (/\ InFn(t, "Set", "store")
           /\ equal[Top(t).cell] = "eq"
           /\ stack'[t] # stack[t]) =>
             ~EqualFunc(value[Top(t).cell], Top(t).val)]_vars

\* The step of goroutine t that ends a recomputation of c: compute has read
\* every dependency (the values are Top(t).acc) and Get goes on.
Recomputes(t, c) ==
    /\ InFn(t, "Get", "compute")
    /\ Top(t).cell = c
    /\ Len(Top(t).acc) = Len(cfg.deps[c])
    /\ stack'[t] # stack[t]

C32_OneComputeForAllReaders ==
    /\ comp["C"].computeCalls <= 1
    /\ \A t \in Threads :
          Returning(t, "Get") =>
             /\ comp["C"].computeCalls = 1
             /\ ~comp["C"].dirty
             /\ Top(t).val = comp["C"].cached
             /\ Top(t).val = IF ComputePanics(cfg.compute["C"], DepValues("C")) THEN 0
                             ELSE ComputeFn(cfg.compute["C"], DepValues("C"))

\* Two Gets that both found the computed dirty on the fast path return the
\* same result of the one compute.
C32_BothSawDirty ==
    /\ \A t \in {1, 2} : Returning(t, "Get") /\ Top(t).calls["C"] = 0 /\ Top(t).val = 2
    /\ comp["C"].computeCalls = 1

\* C33: the subscriber map of a cell holds exactly the ids of its
\* subscriptions that are not torn down, all below nextID; nextID never
\* decreases, a Subscribe takes the id nextID, which no subscription had
\* before, and raises it; an id that has left the map stays out; so with
\* every subscription torn down the map is empty.
C33_MapIsTheLiveSubscriptions ==
    /\ [](LET \* The subscription h has been torn down: an Unsubscribe call for
              \* it has done its delete (it is still running, or done is
              \* closed), or its watcher has done the delete of the context's
              \* case.
              TornDown(h) ==
                  \/ subscr[h].closes > 0
                  \/ subscr[h].wpc = "close"
                  \/ \E t \in Threads : \E i \in 1 .. Len(stack[t]) :
                        /\ stack[t][i].fn = "Unsubscribe"
                        /\ <<stack[t][i].cell, stack[t][i].id>> = h
          IN
          \A c \in Sigs :
            /\ Ids(c) = {h[2] : h \in {g \in DOMAIN subscr : g[1] = c /\ ~TornDown(g)}}
            /\ \A h \in DOMAIN subscr : h[1] = c => h[2] < nextID[c])
    /\ [][/\ \A c \in Sigs :
             /\ nextID'[c] >= nextID[c]
             /\ \A k \in DOMAIN subscribers'[c] \ Ids(c) :
                   /\ k = nextID[c] /\ nextID'[c] = k + 1
                   /\ <<c, k>> \notin DOMAIN subscr
          /\ \A h \in DOMAIN subscr : Removed(h) => h[2] \notin DOMAIN subscribers'[h[1]]]_vars

\* Two subscriptions of A are gone, one by an Unsubscribe call that is
\* returning and one by its watcher after the context was cancelled, and the
\* map is empty.
C33_AllTornDownConcurrently ==
    /\ nextID["A"] = 2 /\ Ids("A") = {}
    /\ \E t \in Threads : Returning(t, "Unsubscribe")
    /\ \E h \in DOMAIN subscr : subscr[h].ctx = "ctx" /\ subscr[h].wpc = "exit"
                                /\ ctxDone["ctx"] /\ subscr[h].closes = 1
    /\ ~crashed

\* C34: at most one goroutine is inside an execution cycle or Stop's
\* teardown, it is the one that holds e.mu, and a body or cleanup is only
\* ever executed by that goroutine.
C34_CyclesAreSerialized ==
    /\ [](LET \* Goroutine t is inside an execution cycle (old cleanup, body,
              \* storing the new cleanup), or inside Stop's teardown (final
              \* cleanup, unsubscribing).
              InCycle(t) ==
                  \E i \in 1 .. Len(stack[t]) :
                     stack[t][i].fn = "run" /\ stack[t][i].pc \in {"cleanup", "body", "store"}
              InTeardown(t) ==
                  \E i \in 1 .. Len(stack[t]) :
                     stack[t][i].fn = "Stop" /\ stack[t][i].pc \in {"final", "unsub"}
          IN
          /\ Cardinality({t \in Threads : InCycle(t) \/ InTeardown(t)}) <= 1
          /\ eff.mu = {t \in Threads : InCycle(t) \/ InTeardown(t)})
    /\ [][eff.events' # eff.events =>
             \E t \in Threads : /\ eff.mu = {t} /\ stack'[t] # stack[t]
                                /\ \A u \in Threads \ {t} : stack'[u] = stack[u]
                                /\ Len(eff.events') = Len(eff.events) + 1]_vars

\* One goroutine is about to run the body because A was set while the other,
\* notified by B, waits for e.mu.
C34_SecondCycleWaits ==
    /\ InFn(1, "run", "body") /\ stack[1][2].fn = "Set"
    /\ InFn(2, "run", "lock") /\ stack[2][2].fn = "Update"
    /\ ~eff.stopped

\* C35: the stored cleanup is none or the one the most recent body execution
\* returned; no cleanup is invoked twice; and once a Stop call has returned
\* none is stored and the cleanup of every body execution has been invoked.
C35_EveryCleanupRunsOnce ==
    LET
        \* How often the cleanup that body execution k returned has been invoked.
        CleanupRuns(k) ==
            Cardinality({i \in 1 .. Len(eff.events) :
                           eff.events[i].e = "cleanup" /\ eff.events[i].k = k})
    IN
    /\ eff.cleanup # <<>> => eff.cleanup[1].k = eff.runs - 1
    /\ \A k \in 0 .. eff.runs - 1 : CleanupRuns(k) <= 1
    /\ StopsReturned > 0 =>
          /\ eff.cleanup = <<>>
          /\ \A k \in 0 .. eff.runs - 1 : CleanupRuns(k) = 1

\* C36: the effect over the computed C is called as C's subscriber only when
\* C has recomputed for the new value of A, inside the Set that changed A;
\* so the Get in the body finds C clean and every body execution, the
\* constructor's included, logs twice the current A.
C36_BodySeesRecomputedValue ==
    [][/\ (/\ InFn(1, "markDirty", "notify")
           /\ Len(stack'[1]) > Len(stack[1])) =>
             /\ stack'[1][1].fn = "run"
             /\ ~comp["C"].dirty
             /\ comp["C"].cached = ComputeFn("double", DepValues("C"))
             /\ comp["C"].computeCalls = stack[1][Len(stack[1])].calls["C"] + 1
             /\ stack[1][Len(stack[1])].fn = "Set"
             /\ stack[1][Len(stack[1])].val = value["A"]
       /\ eff'.runs # eff.runs =>
             /\ eff'.events[Len(eff'.events)].v = 2 * value["A"]
             /\ comp' = comp
             /\ stack[1][2].fn = "markDirty" => Top(1).cell = "E" /\ ~comp["C"].dirty]_vars

\* The constructor's execution logged 0 and the one for Set(1) logged 2.
C36_LoggedZeroThenTwo ==
    /\ Len(eff.events) >= 3
    /\ eff.events[1].v = 0 /\ eff.events[1].src = "EffectWithOptions"
    /\ eff.events[3].e = "body" /\ eff.events[3].v = 2 /\ eff.events[3].src = "markDirty"

\* The cells with a dependency path from c: the computeds over c, over
\* those, and so on.
RECURSIVE Downstream(_)
Downstream(S) ==
    LET more == S \cup {d \in Comps : \E i \in DOMAIN cfg.deps[d] : cfg.deps[d][i] \in S}
    IN IF more = S THEN S ELSE Downstream(more)

\* The public call goroutine t is in, or enters in this step.
PublicCall(t) ==
    IF stack[t] # <<>> THEN stack[t][Len(stack[t])] ELSE stack'[t][Len(stack'[t])]

\* C37: every step of a Set or Update on c leaves c's subscriber map and
\* nextID and every cell without a dependency path from c as they were; a
\* value changes only in the store of a Set or Update on that very cell;
\* every step of a Get, and every Subscribe, leaves all values as they were.
C37_MutationFrame ==
    [][/\ \A t \in Threads :
             (stack'[t] # stack[t] /\ PublicCall(t).fn \in {"Set", "Update"}) =>
                LET c == PublicCall(t).cell IN
                /\ subscribers'[c] = subscribers[c]
                /\ nextID'[c] = nextID[c]
                \* every other cell is as it was: value or cache, subscriber
                \* map, nextID and lock
                /\ \A d \in Cells \ Downstream({c}) :
                      /\ d \in Sigs => value'[d] = value[d]
                      /\ d \in Comps => comp'[d] = comp[d]
                      /\ subscribers'[d] = subscribers[d]
                      /\ nextID'[d] = nextID[d]
                      /\ mu'[d] = mu[d]
       /\ \A c \in Sigs :
             value'[c] # value[c] =>
                \E t \in Threads :
                   /\ Running(t) /\ Top(t).fn \in {"Set", "Update"} /\ Top(t).cell = c
                   /\ Top(t).pc \in {"store", "apply"}
                   /\ stack'[t] # stack[t]
       /\ \A t \in Threads :
             (stack'[t] # stack[t] /\ PublicCall(t).fn = "Get") =>
                value' = value /\ subscribers' = subscribers /\ nextID' = nextID
       /\ subscribers' # subscribers =>
             value' = value /\ comp' = comp /\ mu' = mu /\ stack' = stack]_vars

\* A Set on A has stored 1 and returns while the other goroutine is inside
\* an Update on B, holding B's lock, with B still 0.
C37_SetBesideUpdate ==
    /\ Returning(1, "Set") /\ Top(1).cell = "A" /\ Top(1).stored /\ value["A"] = 1
    /\ InFn(2, "Update", "apply") /\ Top(2).cell = "B" /\ mu["B"] = {2}
    /\ value["B"] = 0 /\ mu["A"] = {} /\ mu["C"] = {}

\* C38: under fair scheduling, once the closure returned by Subscribe has
\* been called or the context is done, the watcher goroutine ends; every
\* Subscribe, Unsubscribe and Update call returns (or the process ends), and
\* no step of a watcher moves a client or takes the lock away from one.
C38_WatcherEnds ==
    /\ \A h \in Handles :
          \* the closure returned for h has been called, or done was closed, or
          \* the context handed to Subscribe is done
          (/\ h \in DOMAIN subscr
           /\ \/ ctxDone[subscr[h].ctx]
              \/ subscr[h].closes > 0
              \/ \E t \in Threads :
                    /\ stack[t] # <<>> /\ Top(t).fn = "Unsubscribe"
                    /\ Top(t).cell = h[1] /\ Top(t).id = h[2])
          \* the watcher goroutine of h has returned, or the process has ended
          ~> (crashed \/ (h \in DOMAIN subscr /\ subscr[h].wpc = "exit"))
    /\ \A t \in Threads : (stack[t] # <<>>) ~> (crashed \/ stack[t] = <<>>)
    /\ [][(subscr' # subscr /\ stack' = stack /\ DOMAIN subscr' = DOMAIN subscr)
             => mu' = mu]_vars

\* The watcher of subscription 0 has ended because the closure was called,
\* while the other goroutine is inside Update holding the lock.
C38_EndedByUnsubscribe ==
    /\ <<"A", 0>> \in DOMAIN subscr
    /\ subscr[<<"A", 0>>].wpc = "exit"
    /\ subscr[<<"A", 0>>].closes = 1
    /\ ~ctxDone[subscr[<<"A", 0>>].ctx]
    /\ ~crashed
    /\ \E t \in Threads : InFn(t, "Update", "apply")

C40_FaultLeavesCellUsable ==
    /\ [](AllIdle => \A c \in Sigs : mu[c] = {})
    /\ [][\A t \in Threads :
             (stack'[t] # stack[t] /\ stack'[t] # <<>> /\ Head(stack'[t]).pc = "panic") =>
                LET c == Head(stack'[t]).cell IN
                /\ value' = value
                /\ subscribers' = subscribers
                /\ t \notin mu'[c] /\ (0 - t) \notin mu'[c]]_vars
====
